---------------------------- MODULE Spec2Model ----------------------------
(***************************************************************************)
(* State-machine model of the iridium-sniffer receive pipeline.            *)
(*                                                                         *)
(*  SpecDet   the burst detector of src/burst_detect.c: ring buffer,       *)
(*            noise baseline, burst tracking, squelch and emission, one    *)
(*            action per step of burst_detector_feed.                      *)
(*                                                                         *)
(* Magnitudes are single-precision floats in the source.  The model draws  *)
(* them from integers that are exactly representable in binary32 and       *)
(* applies the binary32 rounding (round to nearest, ties to even) after    *)
(* every addition, subtraction and division, as the hardware does.         *)
(***************************************************************************)
EXTENDS Integers, Sequences, FiniteSets, TLC

(***************************************************************************)
(* Detector configuration (burst_config_t), scaled down.                   *)
(***************************************************************************)
fft_size == 5
history_size == 2
burst_width == 2
max_bursts == 1
PostFrames == 1
MaxLenFrames == 3
threshold == 1

burst_pre_len == 2 * fft_size
burst_post_len == PostFrames * fft_size
max_burst_len == MaxLenFrames * fft_size

\* sample_rate is chosen so small that the two-second minimum of the ring
\* buffer does not exceed the burst-derived size.
sample_rate == fft_size

\* mutant: the burst-derived size is forgotten, only the minimum is kept
ringbuf_size_min_only == 2 * sample_rate

ringbuf_size ==
    LET need == max_burst_len + burst_pre_len + burst_post_len + fft_size * 4
    IN  IF need < 2 * sample_rate THEN 2 * sample_rate ELSE need

(***************************************************************************)
(* Bounds of the exploration.                                              *)
(***************************************************************************)
MaxFrames == 11
BigExp == 24

Pow2(n) == 2 ^ n
Big == Pow2(BigExp)
Bins == 0 .. (fft_size - 1)
Rows == 0 .. (history_size - 1)
\* A spectrum is the noise floor (magnitude 1) with some of the bins that
\* extract_peaks examines raised to Big, or a flood: all of them raised to
\* 4 * Big, loud enough to stand out of a baseline that holds a Big row.
PeakBins == (burst_width \div 2) .. (fft_size - burst_width \div 2 - 1)
Spectrum(L, v) == [b \in Bins |-> IF b \in L THEN v ELSE 1]
Spectra == {Spectrum(L, Big) : L \in SUBSET PeakBins}
              \cup {Spectrum(PeakBins, 4 * Big)}
\* the run with room for a second burst is shorter and also raises the bins
\* that extract_peaks leaves out
WideFrames == 5
WideSpectra == {Spectrum(L, Big) : L \in SUBSET Bins}
FeedSizes == {fft_size, 2 * fft_size}
Uninit == -1

Max(a, b) == IF a > b THEN a ELSE b
Min(a, b) == IF a < b THEN a ELSE b
Abs(x) == IF x < 0 THEN -x ELSE x

(***************************************************************************)
(* binary32 rounding of an integer value: 24 significant bits, round to    *)
(* nearest, ties to even.                                                  *)
(***************************************************************************)
RECURSIVE Ulp(_, _)
Ulp(a, q) == IF a < Pow2(24) * q THEN q ELSE Ulp(a, 2 * q)

RoundF(x) ==
    LET a == Abs(x)
        q == Ulp(a, 1)
        r == a % q
        lo == a - r
        up == IF 2 * r > q THEN TRUE
              ELSE IF 2 * r < q THEN FALSE
              ELSE (lo \div q) % 2 = 1
        m == IF r = 0 THEN a ELSE IF up THEN lo + q ELSE lo
    IN  IF x < 0 THEN -m ELSE m

FSub(a, b) == RoundF(a - b)
FAdd(a, b) == RoundF(a + b)

(***************************************************************************)
(* binary32 division.  A positive float is the record of its 24-bit        *)
(* significand mant (2^23 <= mant < 2^24) and the exponent exp of its last *)
(* bit: the value is mant * 2^exp.  Zero has mant = 0.  The operands are   *)
(* positive integers that are floats (at most 24 significant bits).        *)
(***************************************************************************)
FZero == [mant |-> 0, exp |-> 0]

\* the number of bits of x > 0
BitLen8(x) ==
    IF x < 16
    THEN (IF x < 4 THEN (IF x < 2 THEN x ELSE 2) ELSE IF x < 8 THEN 3 ELSE 4)
    ELSE (IF x < 64 THEN (IF x < 32 THEN 5 ELSE 6)
          ELSE IF x < 128 THEN 7 ELSE 8)

BitLen(x) ==
    IF x < 65536
    THEN (IF x < 256 THEN BitLen8(x) ELSE 8 + BitLen8(x \div 256))
    ELSE (IF x < 16777216 THEN 16 + BitLen8(x \div 65536)
          ELSE 24 + BitLen8(x \div 16777216))

\* the significand of x as a 24-bit integer
Mant24(x, len) ==
    IF len <= 24 THEN x * Pow2(24 - len) ELSE x \div Pow2(len - 24)

\* the integer x > 0 as a float
ToFloat(x) == [mant |-> Mant24(x, BitLen(x)), exp |-> BitLen(x) - 24]

\* long division, seven bits at a time: q becomes floor(q0 * 2^(7k) + r0 *
\* 2^(7k) / s), r the remainder
RECURSIVE LongDiv(_, _, _, _)
LongDiv(q, r, s, k) ==
    IF k = 0 THEN [q |-> q, r |-> r]
    ELSE LongDiv(q * 128 + (r * 128) \div s, (r * 128) % s, s, k - 1)

\* round to nearest, ties to even: q loses its last bits (drop = 2^bits),
\* sticky tells that the division left a remainder
RoundedMant(q, drop, sticky) ==
    IF 2 * (q % drop) > drop \/ (2 * (q % drop) = drop /\ sticky)
       \/ (2 * (q % drop) = drop /\ (q \div drop) % 2 = 1)
    THEN q \div drop + 1
    ELSE q \div drop

Normalized(mant, exp) ==
    IF mant = 16777216 THEN [mant |-> 8388608, exp |-> exp + 1]
    ELSE [mant |-> mant, exp |-> exp]

\* d is the 28-bit fraction of m24 / s24, a quotient between 1/2 and 2
FQuotient(d, exp) ==
    IF d.q >= 268435456
    THEN Normalized(RoundedMant(d.q, 32, d.r # 0), exp - 23)
    ELSE Normalized(RoundedMant(d.q, 16, d.r # 0), exp - 24)

FDivNorm(m24, s24, exp) ==
    FQuotient(LongDiv(m24 \div s24, m24 % s24, s24, 4), exp)

\* m / s in binary32, for floats m > 0 and s > 0
FDiv(m, s) ==
    FDivNorm(Mant24(m, BitLen(m)), Mant24(s, BitLen(s)),
             BitLen(m) - BitLen(s))

\* a > b for floats that are not negative
FGreater(a, b) ==
    IF a.mant = 0 THEN FALSE
    ELSE IF b.mant = 0 THEN TRUE
    ELSE a.exp > b.exp \/ (a.exp = b.exp /\ a.mant > b.mant)

VARIABLES
    baseline_history, baseline_sum, history_index, history_primed,
    burst_mask, bursts, gone_bursts, burst_id, index, sample_count,
    squelch_count, ringbuf, ringbuf_write, ringbuf_start,
    dpc, emitted, frame_log

detvars == <<baseline_history, baseline_sum, history_index, history_primed,
             burst_mask, bursts, gone_bursts, burst_id, index, sample_count,
             squelch_count, ringbuf, ringbuf_write, ringbuf_start,
             dpc, emitted, frame_log>>

(***************************************************************************)
(* The thread pipeline of main.c: one source thread (spewer_thread for a   *)
(* file, soapy_stream_thread for a live receiver), the detector thread,    *)
(* the pool of downmix workers, the frame consumer, the stats thread and   *)
(* main, connected by samples_queue, burst_queue and frame_queue.          *)
(***************************************************************************)
NumBuffers == 2        \* sample buffers the source delivers in one run
BurstsPerFeed == 1     \* bursts one burst_detector_feed call retires at most
NumWorkers == 2        \* NUM_DOWNMIX_WORKERS, scaled down
SamplesCap == 1        \* SAMPLES_QUEUE_SIZE, scaled down
BurstCap == 1          \* BURST_QUEUE_SIZE, scaled down
FrameCap == 1          \* FRAME_QUEUE_SIZE, scaled down
MaxUserSignals == 1    \* SIGINT/SIGTERM sent from outside the process
TicksPerSecond == 100  \* timestamps are counted in ticks of 10 ms
Stamps == {99, 120, 121}   \* the timestamps a frame can have, in ticks

VARIABLES
    live,            \* live receiver (TRUE) or input file (FALSE)
    running,         \* volatile sig_atomic_t running
    pending,         \* the signals sent whose handler has not run yet
    other_woken,     \* a thread other than main was woken for a signal
    user_sigs,       \* signals sent from outside so far
    samples_queue, burst_queue, frame_queue,
    main_pc, src_pc, src_buf, n_read,
    det_pc, det_buf, det_todo, det_bd, next_burst,
    wk_pc, wk_burst, con_pc, stats_pc,
    con_frame,       \* the frame the consumer took and has not freed yet
    stamp,           \* frame->timestamp of every frame in flight, in ticks
    rec,             \* where every heap record is
    stat_n_dropped,  \* the counter of the stats line ("d:")
    dropped,         \* records a producer discarded instead of enqueueing
    heap_fault,      \* a record was freed or read by a thread not holding it
    printed,         \* the RAW lines printed so far, in order
    out_t0,          \* static uint64_t t0 of frame_output.c, in ticks
    out_initialized  \* static int initialized of frame_output.c

pipevars == <<live, running, pending, other_woken,
              user_sigs, samples_queue, burst_queue,
              frame_queue, main_pc, src_pc, src_buf, n_read, det_pc, det_buf,
              det_todo, det_bd, next_burst, wk_pc, wk_burst, con_pc,
              stats_pc, con_frame, stamp, rec, stat_n_dropped, dropped,
              heap_fault, printed, out_t0, out_initialized>>

(***************************************************************************)
(* The decoding side: the state of the stages behind the frame queue.      *)
(***************************************************************************)
VARIABLES
    ida_all,         \* the IDA bursts of one run
    ida_pending,     \* those the frame consumer has not received yet
    ida_ctx,         \* ida_context_t ida_ctx of main.c
    ida_msgs         \* the messages handed to the callback, in order

idavars == <<ida_all, ida_pending, ida_ctx, ida_msgs>>

VARIABLES
    pll_out,         \* the symbol-rate samples of one frame behind the PLL
    demod_ret,       \* return value of qpsk_demod, -1 before the call
    demod            \* the demod_frame_t it built

qpskvars == <<pll_out, demod_ret, demod>>

VARIABLES
    bch_received,    \* a 31-bit word as received
    bch_error,       \* the bits of it that differ from the codeword sent
    bch_result       \* what bch_31_21_correct returned for its syndrome

bchvars == <<bch_received, bch_error, bch_result>>

VARIABLES
    dec_frame,       \* a demod_frame_t: bits, n_bits and llr
    fd_out,          \* what frame_decode made of it
    ida_out          \* what ida_decode made of it

fdvars == <<dec_frame, fd_out, ida_out>>

VARIABLES
    uw_symbols,      \* the hard-decision symbols of one frame
    uw_dl_ok,        \* check_sync_word for DIR_DOWNLINK, -1 before the call
    uw_ul_ok         \* check_sync_word for DIR_UPLINK, -1 before the call

uwvars == <<uw_symbols, uw_dl_ok, uw_ul_ok>>

VARIABLES
    plan_main,           \* where main() is between thread start and join
    plan_pc,             \* where the detector and each downmix worker is
    fftw_planner_mutex   \* the thread holding the mutex, NoThread if free

planvars == <<plan_main, plan_pc, fftw_planner_mutex>>

VARIABLES
    gf_poly,         \* a generator polynomial
    gf_shift,        \* the shift count k
    gf_rem           \* gf2_remainder(poly, poly << k), -1 before the call

gfvars == <<gf_poly, gf_shift, gf_rem>>

VARIABLES
    det_max_bursts   \* d->max_bursts of the detector of this run

widevars == <<det_max_bursts>>

VARIABLES
    dq_in,           \* the symbols handed to decode_dqpsk
    dq_out           \* the array after the call, <<-1>> before it

dqvars == <<dq_in, dq_out>>

VARIABLES
    td_samples,      \* in->num_samples of the frame handed to qpsk_demod
    td_gardner,      \* use_gardner
    td_error,        \* the Gardner error of the symbols of this frame
    td_pc,           \* "idle", "gardner" or "simple" (in the loop), "done"
    td_pos,          \* pos of decimate_gardner, i of decimate_simple
    td_offset,       \* timing_offset of decimate_gardner
    td_n             \* n: the symbols written to the output array so far

tdvars == <<td_samples, td_gardner, td_error, td_pc, td_pos, td_offset, td_n>>

decvars == <<idavars, qpskvars, bchvars, fdvars, uwvars, planvars, gfvars,
              widevars, dqvars, tdvars>>

vars == <<detvars, pipevars, decvars>>

\* what the actions of one decoding stage leave alone
OutsideIda == <<detvars, pipevars, qpskvars, bchvars, fdvars, uwvars, planvars,
              gfvars, widevars, dqvars, tdvars>>
OutsideQpsk == <<detvars, pipevars, idavars, bchvars, fdvars, uwvars, planvars,
              gfvars, widevars, dqvars, tdvars>>
OutsideBch == <<detvars, pipevars, idavars, qpskvars, fdvars, uwvars, planvars,
              gfvars, widevars, dqvars, tdvars>>
OutsideFd == <<detvars, pipevars, idavars, qpskvars, bchvars, uwvars, planvars,
              gfvars, widevars, dqvars, tdvars>>
OutsideUw == <<detvars, pipevars, idavars, qpskvars, bchvars, fdvars, planvars,
              gfvars, widevars, dqvars, tdvars>>
OutsidePlan == <<detvars, pipevars, idavars, qpskvars, bchvars, fdvars, uwvars,
              gfvars, widevars, dqvars, tdvars>>
OutsideGf == <<detvars, pipevars, idavars, qpskvars, bchvars, fdvars, uwvars,
              planvars, widevars, dqvars, tdvars>>
OutsideDq == <<detvars, pipevars, idavars, qpskvars, bchvars, fdvars, uwvars,
              planvars, gfvars, widevars, tdvars>>
OutsideTd == <<detvars, pipevars, idavars, qpskvars, bchvars, fdvars, uwvars,
              planvars, gfvars, widevars, dqvars>>

(***************************************************************************)
(* The detector object as a record, so that the steps of one FFT frame     *)
(* compose as functions, in the order process_fft_frame calls them.        *)
(***************************************************************************)
DetRec ==
    [baseline_history |-> baseline_history, baseline_sum |-> baseline_sum,
     history_index |-> history_index, history_primed |-> history_primed,
     burst_mask |-> burst_mask, bursts |-> bursts,
     gone_bursts |-> gone_bursts, burst_id |-> burst_id, index |-> index,
     squelch_count |-> squelch_count, log |-> frame_log,
     max_bursts |-> det_max_bursts]

EmptyLog == [forced |-> FALSE, squelch |-> FALSE, reset |-> FALSE,
             reached |-> 0, retired |-> {}]

ones == [b \in Bins |-> 1]
ZeroRow == [b \in Bins |-> 0]

\* remove_burst: delete element i (1-based here) of a sequence
remove_burst(arr, i) ==
    [k \in 1 .. (Len(arr) - 1) |-> IF k < i THEN arr[k] ELSE arr[k + 1]]

\* generic_baseline_update / avx2_baseline_update: sum -= old; sum += new,
\* each operation rounded to binary32
simd_baseline_update(sum, old_hist, new_mag) ==
    [b \in Bins |-> FAdd(FSub(sum[b], old_hist[b]), new_mag[b])]

\* generic_relative_mag: mag / baseline where baseline > 0, else 0, the
\* quotient rounded to binary32 (0 / baseline is 0)
simd_relative_mag(mag, baseline) ==
    [b \in Bins |-> IF baseline[b] > 0 /\ mag[b] > 0
                    THEN FDiv(mag[b], baseline[b])
                    ELSE FZero]

\* d->threshold, a float
threshold_f == ToFloat(threshold)

\* r > d->threshold
AboveThreshold(r) == FGreater(r, threshold_f)

\* ma > mb of peak_cmp_desc
RelGreater(ra, rb) == FGreater(ra, rb)

\* mutant: detection runs on a baseline that is not primed
update_filters_pre_always(d) == TRUE

update_filters_pre(d) == d.history_primed

\* mutant: the baseline follows every frame, bursts active or not
update_filters_post_always(d, M, force) ==
    LET hist == d.baseline_history[d.history_index]
        wrap == d.history_index + 1 = history_size
    IN  [d EXCEPT
           !.baseline_sum = simd_baseline_update(d.baseline_sum, hist, M),
           !.baseline_history = [d.baseline_history EXCEPT
                                    ![d.history_index] = M],
           !.history_index = IF wrap THEN 0 ELSE d.history_index + 1,
           !.history_primed = IF wrap THEN TRUE ELSE d.history_primed]

update_filters_post(d, M, force) ==
    IF Len(d.bursts) = 0 \/ force
    THEN LET hist == d.baseline_history[d.history_index]
             wrap == d.history_index + 1 = history_size
         IN  [d EXCEPT
                !.baseline_sum = simd_baseline_update(d.baseline_sum, hist, M),
                !.baseline_history = [d.baseline_history EXCEPT
                                         ![d.history_index] = M],
                !.history_index = IF wrap THEN 0 ELSE d.history_index + 1,
                !.history_primed = IF wrap THEN TRUE ELSE d.history_primed]
    ELSE d

\* the test of update_bursts on the center bin and its neighbours
BurstIsActive(b, R) ==
    LET cb == b.center_bin
    IN  \/ (cb > 0 /\ AboveThreshold(R[cb - 1]))
        \/ AboveThreshold(R[cb])
        \/ (cb < fft_size - 1 /\ AboveThreshold(R[cb + 1]))

update_bursts(d, R) ==
    [d EXCEPT !.bursts =
        [i \in 1 .. Len(d.bursts) |->
            IF BurstIsActive(d.bursts[i], R)
            THEN [d.bursts[i] EXCEPT !.last_active = d.index]
            ELSE d.bursts[i]]]

\* mutant: only the center bin of the burst is cleared
mask_burst_center_only(mask, b) ==
    [k \in Bins |-> IF k = b.center_bin THEN 0 ELSE mask[k]]

mask_burst(mask, b) ==
    LET clear_start == Max(b.center_bin - burst_width \div 2, 0)
        clear_stop == Min(b.center_bin + burst_width \div 2, fft_size - 1)
    IN  [k \in Bins |-> IF k >= clear_start /\ k <= clear_stop
                        THEN 0 ELSE mask[k]]

RECURSIVE MaskAll(_, _, _)
MaskAll(mask, bs, i) ==
    IF i > Len(bs) THEN mask ELSE MaskAll(mask_burst(mask, bs[i]), bs, i + 1)

update_burst_mask(d) == [d EXCEPT !.burst_mask = MaskAll(ones, d.bursts, 1)]

remove_peaks_around_bursts(d, R) ==
    [b \in Bins |-> IF d.burst_mask[b] = 0 THEN FZero ELSE R[b]]


\* mutant: the length rule with >= in place of >
long_burst_ge(b) ==
    max_burst_len > 0 /\ b.last_active - b.start >= max_burst_len

\* mutant: no length rule
long_burst_never(b) == FALSE

\* the length rule of delete_gone_bursts
long_burst(b) ==
    max_burst_len > 0 /\ b.last_active - b.start > max_burst_len

\* the silence rule of delete_gone_bursts
silent_burst(b, idx) == b.last_active + burst_post_len <= idx

Retired(bs, idx, why) ==
    {[id |-> bs[i].id, start |-> bs[i].start,
      last_active |-> bs[i].last_active, stop |-> idx, why |-> why[i]] :
        i \in 1 .. Len(bs)}

delete_gone_bursts(d, M) ==
    LET Gone(b) == silent_burst(b, d.index) \/ long_burst(b)
        Stay(b) == ~Gone(b)
        gone == SelectSeq(d.bursts, Gone)
        stopped == [i \in 1 .. Len(gone) |-> [gone[i] EXCEPT !.stop = d.index]]
        update_noise == \E i \in 1 .. Len(d.bursts) : long_burst(d.bursts[i])
        why == [i \in 1 .. Len(gone) |->
                    IF long_burst(gone[i]) THEN "length" ELSE "silence"]
        d1 == [d EXCEPT
                 !.bursts = SelectSeq(d.bursts, Stay),
                 !.gone_bursts = d.gone_bursts \o stopped,
                 !.log = [d.log EXCEPT
                            !.forced = update_noise,
                            !.retired = d.log.retired
                                          \cup Retired(gone, d.index, why)]]
    IN  IF update_noise THEN update_filters_post(d1, M, TRUE) ELSE d1

\* qsort with peak_cmp_desc: descending relative magnitude; equal magnitudes
\* keep their bin order
RECURSIVE SortPeaks(_)
SortPeaks(P) ==
    IF P = {} THEN <<>>
    ELSE LET best == CHOOSE p \in P : \A q \in P \ {p} :
                        \/ RelGreater(p.relative_magnitude,
                                      q.relative_magnitude)
                        \/ (/\ ~RelGreater(q.relative_magnitude,
                                           p.relative_magnitude)
                            /\ p.bin < q.bin)
         IN  <<best>> \o SortPeaks(P \ {best})

\* an element of d->peaks
Peak(bin, r) == [bin |-> bin, relative_magnitude |-> r]

extract_peaks(R) ==
    LET half_bw == burst_width \div 2
        P == {Peak(bin, R[bin]) : bin \in half_bw .. (fft_size - half_bw - 1)}
    IN  SortPeaks({p \in P : AboveThreshold(p.relative_magnitude)})

\* the burst create_new_bursts builds for a peak (magnitude and noise, the
\* two dB figures, are not modelled)
NewBurst(d, p) ==
    [id |-> d.burst_id, center_bin |-> p.bin,
     start |-> d.index - burst_pre_len,
     last_active |-> d.index - burst_pre_len, stop |-> 0]

RECURSIVE PeakLoop(_, _, _)
PeakLoop(d, peaks, i) ==
    IF i > Len(peaks) THEN d
    ELSE IF d.burst_mask[peaks[i].bin] = 0 THEN PeakLoop(d, peaks, i + 1)
    ELSE LET b == NewBurst(d, peaks[i])
         IN  PeakLoop([d EXCEPT !.bursts = Append(d.bursts, b),
                                !.burst_id = d.burst_id + 10,
                                !.burst_mask = mask_burst(d.burst_mask, b)],
                      peaks, i + 1)

\* mutant: the reset clears the history but leaves the running sum
baseline_reset_keeps_sum(d) ==
    [d EXCEPT
        !.history_index = 0, !.history_primed = FALSE,
        !.baseline_history = [r \in Rows |-> ZeroRow],
        !.squelch_count = 0]

\* the reset of the noise estimate when squelch_count >= 10
baseline_reset(d) ==
    [d EXCEPT
        !.history_index = 0, !.history_primed = FALSE,
        !.baseline_history = [r \in Rows |-> ZeroRow],
        !.baseline_sum = ZeroRow,
        !.squelch_count = 0]

\* mutant: the bursts created in the frame stay active
squelch_keeps_new(d) ==
    LET Old(b) == b.start # d.index - burst_pre_len
        New(b) == ~Old(b)
        old == SelectSeq(d.bursts, Old)
        stopped == [i \in 1 .. Len(old) |-> [old[i] EXCEPT !.stop = d.index]]
        why == [i \in 1 .. Len(old) |-> "squelch"]
        count == d.squelch_count + 3
        d1 == update_burst_mask(
                [d EXCEPT
                   !.bursts = SelectSeq(d.bursts, New),
                   !.gone_bursts = d.gone_bursts \o stopped,
                   !.log = [d.log EXCEPT
                              !.squelch = TRUE, !.reached = count,
                              !.reset = count >= 10,
                              !.retired = d.log.retired
                                            \cup Retired(old, d.index, why)]])
    IN  IF count >= 10
        THEN baseline_reset(d1)
        ELSE [d1 EXCEPT !.squelch_count = count]

\* the squelch branch of create_new_bursts
squelch(d) ==
    LET Old(b) == b.start # d.index - burst_pre_len
        old == SelectSeq(d.bursts, Old)
        stopped == [i \in 1 .. Len(old) |-> [old[i] EXCEPT !.stop = d.index]]
        why == [i \in 1 .. Len(old) |-> "squelch"]
        count == d.squelch_count + 3
        d1 == update_burst_mask(
                [d EXCEPT
                   !.bursts = <<>>,
                   !.gone_bursts = d.gone_bursts \o stopped,
                   !.log = [d.log EXCEPT
                              !.squelch = TRUE, !.reached = count,
                              !.reset = count >= 10,
                              !.retired = d.log.retired
                                            \cup Retired(old, d.index, why)]])
    IN  IF count >= 10
        THEN baseline_reset(d1)
        ELSE [d1 EXCEPT !.squelch_count = count]

create_new_bursts(d, peaks) ==
    LET d1 == PeakLoop(d, peaks, 1)
    IN  IF d.max_bursts > 0 /\ Len(d1.bursts) > d.max_bursts
        THEN squelch(d1)
        ELSE [d1 EXCEPT !.squelch_count =
                 IF d1.squelch_count > 0 THEN d1.squelch_count - 1
                 ELSE d1.squelch_count]

\* the detection branch of process_fft_frame, taken when the baseline is
\* primed
Detect(d, M, R) ==
    create_new_bursts(
        update_burst_mask(delete_gone_bursts(update_bursts(d, R), M)),
        extract_peaks(remove_peaks_around_bursts(d, R)))

process_fft_frame(d, M) ==
    update_filters_post(
        IF update_filters_pre(d)
        THEN Detect([d EXCEPT !.log = EmptyLog], M,
                    simd_relative_mag(M, d.baseline_sum))
        ELSE [d EXCEPT !.log = EmptyLog],
        M, FALSE)

(***************************************************************************)
(* Ring buffer.  A slot holds the absolute index of the sample stored in   *)
(* it, Uninit while the malloc'd slot was never written.                   *)
(***************************************************************************)
RingWritten(rb, wr, first, n) ==
    [k \in 0 .. (ringbuf_size - 1) |->
        LET off == (k - wr + ringbuf_size) % ringbuf_size
        IN  IF off >= n THEN rb[k]
            ELSE \* the last write to slot k wins
                 first + off + ((n - 1 - off) \div ringbuf_size) * ringbuf_size]

\* ringbuf_write reads d->sample_count before the caller has added n to it
ringbuf_start_after(total_written, old_start) ==
    IF total_written > ringbuf_size THEN total_written - ringbuf_size
    ELSE old_start

\* ringbuf_extract: only the start is clamped
extract_from(start) == IF start < ringbuf_start THEN ringbuf_start ELSE start

ringbuf_extract(start, stop) ==
    LET from == extract_from(start)
    IN  IF stop <= from THEN <<>>
        ELSE [i \in 1 .. (stop - from) |->
                 ringbuf[(from + i - 1) % ringbuf_size]]

\* the burst_data_t emit_gone_bursts builds for one retired burst
BurstData(ab) ==
    LET samples == ringbuf_extract(ab.start, ab.stop + burst_pre_len)
    IN  [info |-> ab, num_samples |-> Len(samples), samples |-> samples]

emit_gone_bursts ==
    LET all == [i \in 1 .. Len(gone_bursts) |-> BurstData(gone_bursts[i])]
        NonEmpty(bd) == bd.num_samples # 0
    IN  SelectSeq(all, NonEmpty)

(***************************************************************************)
(* burst_detector_feed, step by step.                                      *)
(***************************************************************************)
DetInit ==
    /\ baseline_history = [r \in Rows |-> ZeroRow]
    /\ baseline_sum = ZeroRow
    /\ history_index = 0
    /\ history_primed = FALSE
    /\ burst_mask = ones
    /\ bursts = <<>>
    /\ gone_bursts = <<>>
    /\ burst_id = 0
    /\ index = 0
    /\ sample_count = 0
    /\ squelch_count = 0
    /\ ringbuf = [k \in 0 .. (ringbuf_size - 1) |-> Uninit]
    /\ ringbuf_write = 0
    /\ ringbuf_start = 0
    /\ dpc = "idle"
    /\ emitted = <<>>
    /\ frame_log = EmptyLog

\* the inputs and the length of the run, by configuration
Inputs == IF det_max_bursts = max_bursts THEN Spectra ELSE WideSpectra
FrameLimit == IF det_max_bursts = max_bursts THEN MaxFrames ELSE WideFrames

\* entry of burst_detector_feed: convert, ringbuf_write, sample_count += n
Feed ==
    /\ dpc = "idle"
    /\ \E n \in FeedSizes :
        /\ sample_count + n <= FrameLimit * fft_size
        /\ ringbuf' = RingWritten(ringbuf, ringbuf_write, sample_count, n)
        /\ ringbuf_write' = (ringbuf_write + n) % ringbuf_size
        /\ ringbuf_start' = ringbuf_start_after(sample_count, ringbuf_start)
        /\ sample_count' = sample_count + n
    /\ dpc' = "frames"
    /\ emitted' = <<>>
    /\ UNCHANGED <<baseline_history, baseline_sum, history_index,
                   history_primed, burst_mask, bursts, gone_bursts, burst_id,
                   index, squelch_count, frame_log>>
    /\ UNCHANGED <<pipevars, decvars>>

\* one iteration of the frame loop of burst_detector_feed (CPU path)
Frame ==
    /\ dpc = "frames"
    /\ index + fft_size <= sample_count
    /\ \E M \in Inputs : \E d \in {process_fft_frame(DetRec, M)} :
            /\ baseline_history' = d.baseline_history
            /\ baseline_sum' = d.baseline_sum
            /\ history_index' = d.history_index
            /\ history_primed' = d.history_primed
            /\ burst_mask' = d.burst_mask
            /\ bursts' = d.bursts
            /\ gone_bursts' = d.gone_bursts
            /\ burst_id' = d.burst_id
            /\ squelch_count' = d.squelch_count
            /\ frame_log' = d.log
    /\ index' = index + fft_size
    /\ UNCHANGED <<sample_count, ringbuf, ringbuf_write, ringbuf_start, dpc,
                   emitted>>
    /\ UNCHANGED <<pipevars, decvars>>

\* end of burst_detector_feed: emit the completed bursts, if any
Emit ==
    /\ dpc = "frames"
    /\ index + fft_size > sample_count
    /\ emitted' = emit_gone_bursts
    /\ gone_bursts' = <<>>
    /\ dpc' = "idle"
    /\ UNCHANGED <<baseline_history, baseline_sum, history_index,
                   history_primed, burst_mask, bursts, burst_id, index,
                   sample_count, squelch_count, ringbuf, ringbuf_write,
                   ringbuf_start, frame_log>>
    /\ UNCHANGED <<pipevars, decvars>>

NextDet == Feed \/ Frame \/ Emit

(***************************************************************************)
(* Heap records.  A record is named by its kind and a serial number; rec   *)
(* maps it to the place that holds the only pointer to it: a thread, a     *)
(* queue, "unborn" before malloc, "freed" after free, "lost" when the last *)
(* pointer went out of scope without a free.                               *)
(***************************************************************************)
MaxBurstRecords == NumBuffers * BurstsPerFeed
WorkerNames == <<"downmix-0", "downmix-1", "downmix-2", "downmix-3">>
Workers == {WorkerNames[i] : i \in 1 .. NumWorkers}
NoRec == <<"none", 0>>
SampleRec(n) == <<"samples", n>>
BurstRec(n) == <<"burst", n>>
FrameRec(n) == <<"frame", n>>
DemodRec(n) == <<"demod", n>>
Records ==
    {SampleRec(n) : n \in 1 .. NumBuffers}
        \cup {BurstRec(n) : n \in 1 .. MaxBurstRecords}
        \cup {FrameRec(n) : n \in 1 .. MaxBurstRecords}
        \cup {DemodRec(n) : n \in 1 .. MaxBurstRecords}

\* malloc by thread who
Malloc(h, r, who) == [h EXCEPT ![r] = who]
\* free by thread who
Free(h, r) == [h EXCEPT ![r] = "freed"]
\* the pointer moves from its holder into queue qname
Moved(h, r, qname) == [h EXCEPT ![r] = qname]
\* thread who frees or reads r without holding it
Misuse(r, who) == rec[r] # who

(***************************************************************************)
(* The bounded blocking queue.  A queue is its FIFO content and its closed *)
(* flag; each operation yields the return code, "BLOCKED" while the caller *)
(* has to wait.                                                            *)
(***************************************************************************)
EmptyQueue == [items |-> <<>>, closed |-> FALSE]
queue_size(q) == Len(q.items)

\* put waits for a free slot; it fails once the queue is closed
blocking_queue_put(q, cap) ==
    IF q.closed THEN "BQ_CLOSED"
    ELSE IF queue_size(q) >= cap THEN "BLOCKED"
    ELSE "BQ_OK"

\* add never waits; a full queue is reported as BQ_FULL
blocking_queue_add(q, cap) ==
    IF q.closed THEN "BQ_CLOSED"
    ELSE IF queue_size(q) >= cap THEN "BQ_FULL"
    ELSE "BQ_OK"

\* take waits for an element; it fails once the queue is closed
blocking_queue_take(q) ==
    IF q.closed THEN "BQ_CLOSED"
    ELSE IF queue_size(q) = 0 THEN "BLOCKED"
    ELSE "BQ_OK"

blocking_queue_close(q) == [q EXCEPT !.closed = TRUE]

Enqueued(q, r) == [q EXCEPT !.items = Append(@, r)]
Dequeued(q) == [q EXCEPT !.items = Tail(@)]

(***************************************************************************)
(* Initial state: main has created every thread and is about to enter its  *)
(* wait loop.                                                              *)
(***************************************************************************)
PipeInit ==
    /\ live \in BOOLEAN
    /\ running = TRUE
    /\ pending = {}
    /\ other_woken = FALSE
    /\ user_sigs = 0
    /\ samples_queue = EmptyQueue
    /\ burst_queue = EmptyQueue
    /\ frame_queue = EmptyQueue
    /\ main_pc = "wait"
    /\ src_pc = "read"
    /\ src_buf = NoRec
    /\ n_read = 0
    /\ det_pc = "take"
    /\ det_buf = NoRec
    /\ det_todo = 0
    /\ det_bd = NoRec
    /\ next_burst = 0
    /\ wk_pc = [w \in Workers |-> "take"]
    /\ wk_burst = [w \in Workers |-> NoRec]
    /\ con_pc = "take"
    /\ stats_pc = "run"
    /\ con_frame = NoRec
    /\ stamp = [n \in 1 .. MaxBurstRecords |-> 0]
    /\ rec = [r \in Records |-> "unborn"]
    /\ stat_n_dropped = 0
    /\ dropped = 0
    /\ heap_fault = FALSE
    /\ printed = <<>>
    /\ out_t0 = 0
    /\ out_initialized = FALSE

(***************************************************************************)
(* Signals.  SIGINT and SIGTERM share sig_handler and no thread blocks     *)
(* them.  A signal that is sent while the same signal is pending merges    *)
(* with it.  A signal sent to the process wakes main; one that is sent     *)
(* while another signal is still pending wakes a further thread, and from  *)
(* then on each pending signal is handled by whichever of the woken        *)
(* threads takes it first.  pause() returns only when a handler ran on     *)
(* main while main was inside it.                                          *)
(***************************************************************************)
Signals == {"SIGINT", "SIGTERM"}

\* kill(pid, sig) on this process
kill(sig) ==
    /\ pending' = pending \cup {sig}
    /\ other_woken' = (other_woken \/ (pending # {} /\ sig \notin pending))

UserSignal ==
    /\ main_pc # "done"
    /\ user_sigs < MaxUserSignals
    /\ user_sigs' = user_sigs + 1
    /\ \E sig \in Signals : kill(sig)
    /\ UNCHANGED <<live, running, samples_queue, burst_queue, frame_queue,
                   main_pc, src_pc, src_buf, n_read, det_pc, det_buf,
                   det_todo, det_bd, next_burst, wk_pc, wk_burst, con_pc,
                   stats_pc, rec, stat_n_dropped, dropped, heap_fault>>
    /\ UNCHANGED <<con_frame, stamp, printed, out_t0, out_initialized>>
    /\ UNCHANGED <<detvars, decvars>>

\* the threads a pending signal can be handled on
HandlerThreads == IF other_woken THEN {"main", "other"} ELSE {"main"}

\* sig_handler runs for one pending signal, on main or on another thread
sig_handler ==
    /\ pending # {}
    /\ main_pc # "done"
    /\ \E sig \in pending : \E thread \in HandlerThreads :
        /\ pending' = pending \ {sig}
        /\ other_woken' = (other_woken /\ pending \ {sig} # {})
        /\ main_pc' = IF thread = "main" /\ main_pc = "paused"
                      THEN "wait" ELSE main_pc
    /\ running' = FALSE
    /\ UNCHANGED <<live, user_sigs, samples_queue, burst_queue, frame_queue,
                   src_pc, src_buf, n_read, det_pc, det_buf, det_todo,
                   det_bd, next_burst, wk_pc, wk_burst, con_pc, stats_pc,
                   rec, stat_n_dropped, dropped, heap_fault>>
    /\ UNCHANGED <<con_frame, stamp, printed, out_t0, out_initialized>>
    /\ UNCHANGED <<detvars, decvars>>

(***************************************************************************)
(* main: the wait loop and the shutdown sequence.                          *)
(***************************************************************************)
MainOnly ==
    /\ UNCHANGED <<live, pending, other_woken,
                   user_sigs, src_pc, src_buf, n_read, det_pc,
                   det_buf, det_todo, det_bd, next_burst, wk_pc, wk_burst,
                   con_pc, stats_pc, rec, stat_n_dropped, dropped,
                   heap_fault>>
    /\ UNCHANGED <<con_frame, stamp, printed, out_t0, out_initialized>>
    /\ UNCHANGED <<detvars, decvars>>

\* while (running): the test of the flag; running = 0 after the loop
MainTest ==
    /\ main_pc = "wait"
    /\ main_pc' = IF running THEN "pause" ELSE "stop_sdr"
    /\ running' = running
    /\ UNCHANGED <<samples_queue, burst_queue, frame_queue>>
    /\ MainOnly

\* the call of pause() after the test found the flag set
MainPause ==
    /\ main_pc = "pause"
    /\ main_pc' = "paused"
    /\ UNCHANGED <<running, samples_queue, burst_queue, frame_queue>>
    /\ MainOnly

\* if (live) pthread_join(soapy_thread)
MainStopSdr ==
    /\ main_pc = "stop_sdr"
    /\ live => src_pc = "done"
    /\ main_pc' = "close_samples"
    /\ UNCHANGED <<running, samples_queue, burst_queue, frame_queue>>
    /\ MainOnly

MainCloseSamples ==
    /\ main_pc = "close_samples"
    /\ samples_queue' = blocking_queue_close(samples_queue)
    /\ main_pc' = "join_spewer"
    /\ UNCHANGED <<running, burst_queue, frame_queue>>
    /\ MainOnly

\* if (!live && in_file != NULL) pthread_join(spewer)
MainJoinSpewer ==
    /\ main_pc = "join_spewer"
    /\ ~live => src_pc = "done"
    /\ main_pc' = "join_detector"
    /\ UNCHANGED <<running, samples_queue, burst_queue, frame_queue>>
    /\ MainOnly

MainJoinDetector ==
    /\ main_pc = "join_detector"
    /\ det_pc = "done"
    /\ main_pc' = "close_burst"
    /\ UNCHANGED <<running, samples_queue, burst_queue, frame_queue>>
    /\ MainOnly

\* while (burst_queue.queue_size > 0) usleep; blocking_queue_close
MainCloseBurst ==
    /\ main_pc = "close_burst"
    /\ queue_size(burst_queue) = 0
    /\ burst_queue' = blocking_queue_close(burst_queue)
    /\ main_pc' = "join_workers"
    /\ UNCHANGED <<running, samples_queue, frame_queue>>
    /\ MainOnly

MainJoinWorkers ==
    /\ main_pc = "join_workers"
    /\ \A w \in Workers : wk_pc[w] = "done"
    /\ main_pc' = "close_frame"
    /\ UNCHANGED <<running, samples_queue, burst_queue, frame_queue>>
    /\ MainOnly

\* while (frame_queue.queue_size > 0) usleep; blocking_queue_close
MainCloseFrame ==
    /\ main_pc = "close_frame"
    /\ queue_size(frame_queue) = 0
    /\ frame_queue' = blocking_queue_close(frame_queue)
    /\ main_pc' = "join_consumer"
    /\ UNCHANGED <<running, samples_queue, burst_queue>>
    /\ MainOnly

MainJoinConsumer ==
    /\ main_pc = "join_consumer"
    /\ con_pc = "done"
    /\ main_pc' = "join_stats"
    /\ UNCHANGED <<running, samples_queue, burst_queue, frame_queue>>
    /\ MainOnly

MainJoinStats ==
    /\ main_pc = "join_stats"
    /\ stats_pc = "done"
    /\ main_pc' = "done"
    /\ UNCHANGED <<running, samples_queue, burst_queue, frame_queue>>
    /\ MainOnly

(***************************************************************************)
(* The source thread.                                                      *)
(***************************************************************************)
SourceOnly ==
    /\ UNCHANGED <<live, user_sigs, burst_queue, frame_queue, main_pc,
                   det_pc, det_buf, det_todo, det_bd, next_burst, wk_pc,
                   wk_burst, con_pc, stats_pc, stat_n_dropped>>
    /\ UNCHANGED <<con_frame, stamp, printed, out_t0, out_initialized>>
    /\ UNCHANGED <<detvars, decvars>>

\* spewer_thread: while (running) { malloc; fread; if (r == 0) {free; break;}
SpewerRead ==
    /\ ~live
    /\ src_pc = "read"
    /\ \E r \in IF running /\ n_read < NumBuffers THEN {0, 1} ELSE {0} :
        IF ~running \/ r = 0
        THEN /\ src_pc' = "drain"
             /\ UNCHANGED <<src_buf, n_read, rec>>
        ELSE /\ n_read' = n_read + 1
             /\ src_buf' = SampleRec(n_read + 1)
             /\ rec' = Malloc(rec, SampleRec(n_read + 1), "spewer")
             /\ src_pc' = "put"
    /\ UNCHANGED <<running, pending, other_woken,
                   samples_queue, dropped, heap_fault>>
    /\ SourceOnly

\* spewer_thread: if (blocking_queue_put(&samples_queue, s) != 0) {free; break;}
SpewerPut ==
    /\ ~live
    /\ src_pc = "put"
    /\ \E ret \in {blocking_queue_put(samples_queue, SamplesCap)} :
        /\ ret # "BLOCKED"
        /\ IF ret = "BQ_OK"
           THEN /\ samples_queue' = Enqueued(samples_queue, src_buf)
                /\ rec' = Moved(rec, src_buf, "samples_queue")
                /\ src_pc' = "read"
                /\ dropped' = dropped
           ELSE /\ rec' = Free(rec, src_buf)
                /\ src_pc' = "drain"
                /\ dropped' = dropped
                /\ UNCHANGED samples_queue
    /\ heap_fault' = (heap_fault \/ Misuse(src_buf, "spewer"))
    /\ src_buf' = NoRec
    /\ UNCHANGED <<running, pending, other_woken, n_read>>
    /\ SourceOnly

\* spewer_thread: while (running && samples_queue.queue_size > 0) usleep
SpewerDrain ==
    /\ ~live
    /\ src_pc = "drain"
    /\ ~(running /\ queue_size(samples_queue) > 0)
    /\ src_pc' = "stop"
    /\ UNCHANGED <<running, pending, other_woken,
                   samples_queue, src_buf, n_read, rec,
                   dropped, heap_fault>>
    /\ SourceOnly

\* soapy_stream_thread: while (running) { malloc; readStream; ...
\* a timeout or an overflow frees the buffer and continues, an error frees
\* it and leaves the loop
SoapyRead ==
    /\ live
    /\ src_pc = "read"
    /\ \E ret \in IF running /\ n_read < NumBuffers THEN {-1, 1} ELSE {-1} :
        IF ~running \/ ret < 0
        THEN /\ src_pc' = "stop"
             /\ UNCHANGED <<src_buf, n_read, rec>>
        ELSE /\ n_read' = n_read + 1
             /\ src_buf' = SampleRec(n_read + 1)
             /\ rec' = Malloc(rec, SampleRec(n_read + 1), "soapy")
             /\ src_pc' = "got"
    /\ UNCHANGED <<running, pending, other_woken,
                   samples_queue, dropped, heap_fault>>
    /\ SourceOnly

\* push_samples: add, and on BQ_FULL free the buffer
push_samples(buf) ==
    \E ret \in {blocking_queue_add(samples_queue, SamplesCap)} :
        /\ samples_queue' = IF ret = "BQ_OK"
                            THEN Enqueued(samples_queue, buf)
                            ELSE samples_queue
        /\ rec' = IF ret = "BQ_OK" THEN Moved(rec, buf, "samples_queue")
                  ELSE IF ret = "BQ_FULL" THEN Free(rec, buf)
                  ELSE [rec EXCEPT ![buf] = "lost"]
        /\ dropped' = IF ret = "BQ_FULL" THEN dropped + 1 ELSE dropped

\* soapy_stream_thread: if (running) push_samples(s); else free(s);
SoapyPush ==
    /\ live
    /\ src_pc = "got"
    /\ IF running
       THEN push_samples(src_buf)
       ELSE /\ rec' = Free(rec, src_buf)
            /\ UNCHANGED <<samples_queue, dropped>>
    /\ heap_fault' = (heap_fault \/ Misuse(src_buf, "soapy"))
    /\ src_buf' = NoRec
    /\ src_pc' = "read"
    /\ UNCHANGED <<running, pending, other_woken, n_read>>
    /\ SourceOnly

\* the end of both source threads: running = 0;
SourceStop ==
    /\ src_pc = "stop"
    /\ running' = FALSE
    /\ src_pc' = "kill"
    /\ UNCHANGED <<pending, other_woken,
                   samples_queue, src_buf, n_read, rec, dropped,
                   heap_fault>>
    /\ SourceOnly

\* the end of both source threads: kill(self_pid, SIGINT); return
SourceKill ==
    /\ src_pc = "kill"
    /\ kill("SIGINT")
    /\ src_pc' = "done"
    /\ UNCHANGED <<running, samples_queue, src_buf, n_read, rec, dropped,
                   heap_fault>>
    /\ SourceOnly

(***************************************************************************)
(* burst_detector_thread and its callback burst_to_queue.  How many bursts *)
(* a feed retires is an input here; SpecDet covers the detector itself.    *)
(***************************************************************************)
DetOnly ==
    /\ UNCHANGED <<live, running, pending, other_woken,
                   user_sigs, frame_queue, main_pc,
                   src_pc, src_buf, n_read, wk_pc, wk_burst, con_pc,
                   stats_pc>>
    /\ UNCHANGED <<con_frame, printed, out_t0, out_initialized>>
    /\ UNCHANGED <<detvars, decvars>>

\* if (blocking_queue_take(&samples_queue, &samples) != 0) break;
\* then the feed call starts
DetTake ==
    /\ det_pc = "take"
    /\ \E ret \in {blocking_queue_take(samples_queue)} :
        /\ ret # "BLOCKED"
        /\ IF ret = "BQ_OK"
           THEN /\ \E k \in 0 .. Min(BurstsPerFeed,
                                     MaxBurstRecords - next_burst) :
                        det_todo' = k
                /\ det_buf' = Head(samples_queue.items)
                /\ samples_queue' = Dequeued(samples_queue)
                /\ rec' = Moved(rec, Head(samples_queue.items), "detector")
                /\ det_pc' = "feed"
           ELSE /\ det_pc' = "done"
                /\ UNCHANGED <<det_todo, det_buf, samples_queue, rec>>
    /\ UNCHANGED <<burst_queue, det_bd, next_burst, stat_n_dropped, dropped,
                   heap_fault, stamp>>
    /\ DetOnly

\* emit_gone_bursts: the burst record of the next retired burst is built
DetEmit ==
    /\ det_pc = "feed"
    /\ det_todo > 0
    /\ next_burst' = next_burst + 1
    /\ det_bd' = BurstRec(next_burst + 1)
    /\ rec' = Malloc(rec, BurstRec(next_burst + 1), "detector")
    /\ heap_fault' = (heap_fault \/ Misuse(det_buf, "detector"))
    /\ det_pc' = "put"
    /\ UNCHANGED <<samples_queue, burst_queue, det_buf, det_todo,
                   stat_n_dropped, dropped, stamp>>
    /\ DetOnly

\* burst_to_queue: put; if it fails free the burst and count it as dropped
burst_to_queue ==
    /\ det_pc = "put"
    /\ \E ret \in {blocking_queue_put(burst_queue, BurstCap)} :
        /\ ret # "BLOCKED"
        /\ IF ret = "BQ_OK"
           THEN /\ burst_queue' = Enqueued(burst_queue, det_bd)
                /\ rec' = Moved(rec, det_bd, "burst_queue")
                /\ UNCHANGED <<stat_n_dropped, dropped>>
           ELSE /\ rec' = Free(rec, det_bd)
                /\ stat_n_dropped' = stat_n_dropped + 1
                /\ dropped' = dropped + 1
                /\ UNCHANGED burst_queue
    /\ heap_fault' = (heap_fault \/ Misuse(det_bd, "detector"))
    /\ det_bd' = NoRec
    /\ det_todo' = det_todo - 1
    /\ det_pc' = "feed"
    /\ UNCHANGED <<samples_queue, det_buf, next_burst, stamp>>
    /\ DetOnly

\* the feed call returned: free(samples)
DetFree ==
    /\ det_pc = "feed"
    /\ det_todo = 0
    /\ rec' = Free(rec, det_buf)
    /\ heap_fault' = (heap_fault \/ Misuse(det_buf, "detector"))
    /\ det_buf' = NoRec
    /\ det_pc' = "take"
    /\ UNCHANGED <<samples_queue, burst_queue, det_todo, det_bd, next_burst,
                   stat_n_dropped, dropped, stamp>>
    /\ DetOnly

(***************************************************************************)
(* burst_downmix_thread, one per worker.  The frame of burst n is frame n. *)
(* Between two shared-memory operations of a thread the others may run:    *)
(* each action is one such operation with the local work before it.        *)
(***************************************************************************)
WorkerOnly ==
    /\ UNCHANGED <<live, running, pending, other_woken,
                   user_sigs, samples_queue, main_pc,
                   src_pc, src_buf, n_read, det_pc, det_buf, det_todo,
                   det_bd, next_burst, con_pc, stats_pc, stat_n_dropped>>
    /\ UNCHANGED <<con_frame, printed, out_t0, out_initialized>>
    /\ UNCHANGED <<detvars, decvars>>

\* if (blocking_queue_take(&burst_queue, &burst) != 0) break;
WorkerTake(w) ==
    /\ wk_pc[w] = "take"
    /\ \E ret \in {blocking_queue_take(burst_queue)} :
        /\ ret # "BLOCKED"
        /\ IF ret = "BQ_OK"
           THEN /\ wk_burst' = [wk_burst EXCEPT
                                    ![w] = Head(burst_queue.items)]
                /\ burst_queue' = Dequeued(burst_queue)
                /\ rec' = Moved(rec, Head(burst_queue.items), w)
                /\ wk_pc' = [wk_pc EXCEPT ![w] = "process"]
           ELSE /\ wk_pc' = [wk_pc EXCEPT ![w] = "done"]
                /\ UNCHANGED <<wk_burst, burst_queue, rec>>
    /\ UNCHANGED <<frame_queue, dropped, heap_fault, stamp>>
    /\ WorkerOnly

\* frame->timestamp
Timestamp(r) == stamp[r[2]]

\* burst_downmix_process builds at most one frame; the frame is added to
\* frame_queue and freed if the queue is full.  The timestamp of the frame
\* is the time its burst began at (start_time_ns and info.start) plus the
\* start of the frame within the burst.  The detector hands a burst on when
\* it ends, not when it begins, so the timestamps of the bursts a worker
\* takes one after the other come in any order: each is an input here.
WorkerProcess(w) ==
    /\ wk_pc[w] = "process"
    /\ \E n_frames \in {0, 1} :
        \E f \in {FrameRec(wk_burst[w][2])} :
        \E ret \in {blocking_queue_add(frame_queue, FrameCap)} :
            IF n_frames > 0
            THEN /\ \E timestamp \in Stamps :
                        stamp' = IF ret = "BQ_OK"
                                 THEN [stamp EXCEPT ![f[2]] = timestamp]
                                 ELSE stamp
                 /\ frame_queue' = IF ret = "BQ_OK"
                                   THEN Enqueued(frame_queue, f)
                                   ELSE frame_queue
                 /\ rec' = [rec EXCEPT
                                ![f] = IF ret = "BQ_OK" THEN "frame_queue"
                                       ELSE IF ret = "BQ_FULL" THEN "freed"
                                       ELSE "lost"]
                 /\ dropped' = IF ret = "BQ_FULL" THEN dropped + 1
                               ELSE dropped
            ELSE UNCHANGED <<stamp, frame_queue, rec, dropped>>
    /\ heap_fault' = (heap_fault \/ Misuse(wk_burst[w], w))
    /\ wk_pc' = [wk_pc EXCEPT ![w] = "free"]
    /\ UNCHANGED <<burst_queue, wk_burst>>
    /\ WorkerOnly

\* free(burst->samples); free(burst);
WorkerFree(w) ==
    /\ wk_pc[w] = "free"
    /\ rec' = Free(rec, wk_burst[w])
    /\ heap_fault' = (heap_fault \/ Misuse(wk_burst[w], w))
    /\ wk_burst' = [wk_burst EXCEPT ![w] = NoRec]
    /\ wk_pc' = [wk_pc EXCEPT ![w] = "take"]
    /\ UNCHANGED <<burst_queue, frame_queue, dropped, stamp>>
    /\ WorkerOnly

(***************************************************************************)
(* frame_output_print, frame_consumer_thread and stats_thread_fn.          *)
(***************************************************************************)
\* frame->timestamp - t0 in uint64_t: the difference in ticks, and wrapped
\* when the frame is older than t0 (the value printed is then 2^64 ns plus
\* the negative difference)
Elapsed(ts, t0v) == [wrapped |-> ts < t0v, ticks |-> ts - t0v]

\* the RAW line of a frame: its relative time and its id
RawLine(ts, t0v, id) == [ts_ms |-> Elapsed(ts, t0v), id |-> id]

\* t0 of the first frame printed: its timestamp without the fraction of
\* the second
FirstT0(ts) == (ts \div TicksPerSecond) * TicksPerSecond

\* frame_output_print: the first call sets t0; every call prints one line
frame_output_print(o, ts, id) ==
    IF o.initialized
    THEN [o EXCEPT !.lines = Append(@, RawLine(ts, o.t0, id))]
    ELSE [t0 |-> FirstT0(ts), initialized |-> TRUE,
          lines |-> Append(o.lines, RawLine(ts, FirstT0(ts), id))]

ConsumerOnly ==
    /\ UNCHANGED <<live, running, pending, other_woken,
                   user_sigs, samples_queue,
                   burst_queue, main_pc, src_pc, src_buf, n_read, det_pc,
                   det_buf, det_todo, det_bd, next_burst, wk_pc, wk_burst,
                   stats_pc, stat_n_dropped, dropped>>
    /\ UNCHANGED <<detvars, decvars>>

\* if (blocking_queue_take(&frame_queue, &frame) != 0) break;
ConsumerTake ==
    /\ con_pc = "take"
    /\ \E ret \in {blocking_queue_take(frame_queue)} :
        /\ ret # "BLOCKED"
        /\ IF ret = "BQ_OK"
           THEN /\ con_frame' = Head(frame_queue.items)
                /\ frame_queue' = Dequeued(frame_queue)
                /\ rec' = Moved(rec, Head(frame_queue.items), "consumer")
                /\ con_pc' = "demod"
           ELSE /\ con_pc' = "done"
                /\ UNCHANGED <<con_frame, frame_queue, rec>>
    /\ UNCHANGED <<heap_fault, stamp, printed, out_t0, out_initialized>>
    /\ ConsumerOnly

\* if (qpsk_demod(frame, &demod)) { frame_output_print(demod); ... }
ConsumerDemod ==
    /\ con_pc = "demod"
    /\ \E qpsk_demod \in BOOLEAN :
        IF qpsk_demod
        THEN /\ \E o \in {frame_output_print(
                             [t0 |-> out_t0, initialized |-> out_initialized,
                              lines |-> printed],
                             Timestamp(con_frame), con_frame[2])} :
                    /\ printed' = o.lines
                    /\ out_t0' = o.t0
                    /\ out_initialized' = o.initialized
             /\ rec' = Malloc(rec, DemodRec(con_frame[2]), "consumer")
        ELSE UNCHANGED <<printed, out_t0, out_initialized, rec>>
    /\ heap_fault' = (heap_fault \/ Misuse(con_frame, "consumer"))
    /\ con_pc' = "free"
    /\ UNCHANGED <<con_frame, frame_queue, stamp>>
    /\ ConsumerOnly

\* free(demod->bits); free(demod); if there is one, then
\* free(frame->samples); free(frame);
ConsumerFree ==
    /\ con_pc = "free"
    /\ rec' = [rec EXCEPT
                  ![con_frame] = "freed",
                  ![DemodRec(con_frame[2])] =
                        IF @ = "consumer" THEN "freed" ELSE @]
    /\ heap_fault' = (heap_fault \/ Misuse(con_frame, "consumer"))
    /\ stamp' = [stamp EXCEPT ![con_frame[2]] = 0]
    /\ con_frame' = NoRec
    /\ con_pc' = "take"
    /\ UNCHANGED <<frame_queue, printed, out_t0, out_initialized>>
    /\ ConsumerOnly

\* the loop of the frame consumer: take a frame, demodulate and print it,
\* free it; leave on a failed take
frame_consumer_thread == ConsumerTake \/ ConsumerDemod \/ ConsumerFree

\* while (running) { usleep(1000000); if (!running) break; ... }
stats_thread_fn ==
    /\ stats_pc = "run"
    /\ ~running
    /\ stats_pc' = "done"
    /\ UNCHANGED <<live, running, pending, other_woken,
                   user_sigs, samples_queue,
                   burst_queue, frame_queue, main_pc, src_pc, src_buf,
                   n_read, det_pc, det_buf, det_todo, det_bd, next_burst,
                   wk_pc, wk_burst, con_pc, rec, stat_n_dropped, dropped,
                   heap_fault>>
    /\ UNCHANGED <<con_frame, stamp, printed, out_t0, out_initialized>>
    /\ UNCHANGED <<detvars, decvars>>

\* spewer_thread: the source thread of a run that reads a file
spewer_thread == SpewerRead \/ SpewerPut \/ SpewerDrain

\* soapy_stream_thread: the source thread of a run on a receiver
soapy_stream_thread == SoapyRead \/ SoapyPush

\* the steps of main, of the signal handler, of the end of either source
\* thread and of the threads behind the samples queue
SharedStep ==
    \/ sig_handler
    \/ MainTest \/ MainPause \/ MainStopSdr \/ MainCloseSamples
    \/ MainJoinSpewer \/ MainJoinDetector \/ MainCloseBurst
    \/ MainJoinWorkers \/ MainCloseFrame \/ MainJoinConsumer
    \/ MainJoinStats
    \/ SourceStop \/ SourceKill
    \/ DetTake \/ DetEmit \/ burst_to_queue \/ DetFree
    \/ (\E w \in Workers : WorkerTake(w))
    \/ (\E w \in Workers : WorkerProcess(w))
    \/ (\E w \in Workers : WorkerFree(w))
    \/ frame_consumer_thread
    \/ stats_thread_fn

\* every step the process takes by itself
ProgramStep == SharedStep \/ spewer_thread \/ soapy_stream_thread

\* a run on a receiver
NextPipe == UserSignal \/ SharedStep \/ soapy_stream_thread

\* a run on an input file
NextFile == UserSignal \/ SharedStep \/ spewer_thread

(***************************************************************************)
(* IDA multi-burst reassembly (ida_decode.c), as the frame consumer drives *)
(* it: for each demodulated frame, ida_reassemble if ida_decode accepts    *)
(* the frame, and then, accepted or not, ida_reassemble_flush with the     *)
(* timestamp of the frame.                                                 *)
(***************************************************************************)
IdaSlots == 2              \* IDA_MAX_REASSEMBLY, scaled down
MaxFragments == 3          \* fragments of the longest message delivered
FreqTolerance == 260       \* Hz
MaxGapNs == 280000000      \* largest gap between two fragments of a message
FlushNs == 1000000000      \* age at which a slot is dropped
DataSize == 256            \* sizeof(s->data)
FragmentLen == 20          \* da_len of the fragments delivered, in bytes
FrameGapNs == 90000000     \* distance in time of two fragments of a message
LateNs == 1050000000       \* timestamp of a frame of another kind

Slots == 0 .. (IdaSlots - 1)
FreeSlot == [active |-> FALSE, direction |-> "DL", frequency |-> 0,
             last_timestamp |-> 0, last_ctr |-> 0, data |-> <<>>,
             data_len |-> 0]
EmptyCtx == [i \in Slots |-> FreeSlot]

\* the frames of a message of n fragments on frequency f starting at t0;
\* ida tells that ida_decode accepts the frame
Fragments(f, t0, n) ==
    {[timestamp |-> t0 + i * FrameGapNs, frequency |-> f, direction |-> "DL",
      da_ctr |-> i % 8, da_len |-> FragmentLen, cont |-> (i < n - 1),
      crc_ok |-> TRUE, payload |-> <<f, i>>, ida |-> TRUE] :
        i \in 0 .. (n - 1)}

\* a demodulated frame at time t that ida_decode rejects
OtherFrame(t) ==
    [timestamp |-> t, frequency |-> 0, direction |-> "DL", da_ctr |-> 0,
     da_len |-> 0, cont |-> FALSE, crc_ok |-> FALSE, payload |-> <<>>,
     ida |-> FALSE]

\* one message, or two messages on two channels that overlap in time
IdaMessages ==
    {Fragments(1000, 0, n) : n \in 1 .. MaxFragments}
        \cup {Fragments(1000, 0, n) \cup Fragments(5000, FrameGapNs \div 2, k) :
                n \in 1 .. MaxFragments, k \in 1 .. 2}

\* what the consumer receives in one run: the frames of the messages, alone
\* or with a frame of another kind among them
Scenarios ==
    IdaMessages \cup {m \cup {OtherFrame(LateNs)} : m \in IdaMessages}

\* the loop over the slots: burst continues the message of slot s
SlotMatches(s, burst) ==
    /\ s.active
    /\ s.direction = burst.direction
    /\ Abs(s.frequency - burst.frequency) <= FreqTolerance
    /\ burst.timestamp >= s.last_timestamp
    /\ burst.timestamp - s.last_timestamp <= MaxGapNs
    /\ (s.last_ctr + 1) % 8 = burst.da_ctr

Message(data, burst, s) ==
    [data |-> data, timestamp |-> burst.timestamp, frequency |-> s.frequency,
     direction |-> s.direction]

\* the slot a new message takes: the first free one, else the oldest
RECURSIVE VictimSlot(_, _, _, _)
VictimSlot(ctx, i, idx, oldest) ==
    IF i = IdaSlots THEN (IF idx < 0 THEN 0 ELSE idx)
    ELSE IF ~ctx[i].active THEN i
    ELSE IF idx < 0 \/ ctx[i].last_timestamp < oldest
         THEN VictimSlot(ctx, i + 1, i, ctx[i].last_timestamp)
         ELSE VictimSlot(ctx, i + 1, idx, oldest)

\* ida_reassemble: the context afterwards and the messages handed to cb
ida_reassemble(ctx, burst) ==
    LET hits == {i \in Slots : SlotMatches(ctx[i], burst)}
    IN
    IF ~burst.crc_ok \/ burst.da_len = 0
    THEN [ctx |-> ctx, out |-> <<>>]
    ELSE IF hits # {}
    THEN LET i == CHOOSE h \in hits : \A g \in hits : h <= g
             s == ctx[i]
             fits == s.data_len + burst.da_len <= DataSize
             data == IF fits THEN Append(s.data, burst.payload) ELSE s.data
             len == IF fits THEN s.data_len + burst.da_len ELSE s.data_len
             s2 == [s EXCEPT !.data = data, !.data_len = len,
                             !.last_timestamp = burst.timestamp,
                             !.last_ctr = burst.da_ctr]
         IN  IF ~burst.cont
             THEN [ctx |-> [ctx EXCEPT ![i] = [s2 EXCEPT !.active = FALSE]],
                   out |-> <<Message(data, burst, s)>>]
             ELSE [ctx |-> [ctx EXCEPT ![i] = s2], out |-> <<>>]
    ELSE IF burst.da_ctr = 0 /\ ~burst.cont
    THEN [ctx |-> ctx, out |-> <<Message(<<burst.payload>>, burst, burst)>>]
    ELSE IF burst.da_ctr = 0 /\ burst.cont
    THEN LET idx == VictimSlot(ctx, 0, -1, 0)
         IN  [ctx |-> [ctx EXCEPT ![idx] =
                        [active |-> TRUE, direction |-> burst.direction,
                         frequency |-> burst.frequency,
                         last_timestamp |-> burst.timestamp,
                         last_ctr |-> burst.da_ctr,
                         data |-> <<burst.payload>>,
                         data_len |-> burst.da_len]],
              out |-> <<>>]
    ELSE [ctx |-> ctx, out |-> <<>>]

ida_reassemble_flush(ctx, now_ns) ==
    [i \in Slots |->
        IF ctx[i].active /\ now_ns > ctx[i].last_timestamp + FlushNs
        THEN [ctx[i] EXCEPT !.active = FALSE]
        ELSE ctx[i]]

\* frame_consumer_thread, the gsmtap branch, for one demodulated frame
ConsumeIda(ctx, frame) ==
    LET r == IF frame.ida THEN ida_reassemble(ctx, frame)
             ELSE [ctx |-> ctx, out |-> <<>>]
    IN  [ctx |-> ida_reassemble_flush(r.ctx, frame.timestamp), out |-> r.out]

\* the messages emitted when the bursts arrive in the order of their
\* timestamps
RECURSIVE InTimestampOrder(_, _)
InTimestampOrder(ctx, todo) ==
    IF todo = {} THEN <<>>
    ELSE LET b == CHOOSE x \in todo : \A y \in todo : x.timestamp <= y.timestamp
             r == ConsumeIda(ctx, b)
         IN  r.out \o InTimestampOrder(r.ctx, todo \ {b})

MessageData(msgs) == {msgs[i].data : i \in 1 .. Len(msgs)}

IdaParked ==
    /\ ida_all = {}
    /\ ida_pending = {}
    /\ ida_ctx = EmptyCtx
    /\ ida_msgs = <<>>

IdaStart ==
    /\ ida_all \in Scenarios
    /\ ida_pending = ida_all
    /\ ida_ctx = EmptyCtx
    /\ ida_msgs = <<>>

\* the worker pool delivers the next frame, whichever it is
IdaDeliver ==
    /\ \E burst \in ida_pending : \E r \in {ConsumeIda(ida_ctx, burst)} :
        /\ ida_ctx' = r.ctx
        /\ ida_msgs' = ida_msgs \o r.out
        /\ ida_pending' = ida_pending \ {burst}
    /\ UNCHANGED ida_all
    /\ UNCHANGED OutsideIda

NextIda == IdaDeliver

\* one message of up to LongFragments fragments, its counter wrapping from 7
\* to 0, alone or with a frame of another kind between its first two
\* fragments, fed to the frame consumer in the order of the timestamps
LongFragments == 14
LongMessages ==
    {Fragments(1000, 0, n) : n \in 1 .. LongFragments}
        \cup {Fragments(1000, 0, n) \cup {OtherFrame(FrameGapNs \div 2)} :
                n \in 1 .. LongFragments}

IdaLongStart ==
    /\ ida_all \in LongMessages
    /\ ida_pending = ida_all
    /\ ida_ctx = EmptyCtx
    /\ ida_msgs = <<>>

Earliest(todo) == CHOOSE x \in todo : \A y \in todo : x.timestamp <= y.timestamp

\* the frame consumer receives the next frame in timestamp order
IdaFeed ==
    /\ ida_pending # {}
    /\ \E r \in {ConsumeIda(ida_ctx, Earliest(ida_pending))} :
        /\ ida_ctx' = r.ctx
        /\ ida_msgs' = ida_msgs \o r.out
    /\ ida_pending' = ida_pending \ {Earliest(ida_pending)}
    /\ UNCHANGED ida_all
    /\ UNCHANGED OutsideIda

NextLong == IdaFeed

(***************************************************************************)
(* The QPSK/DQPSK demodulator (qpsk_demod.c) behind decimation and PLL.    *)
(* A sample of pll_out is given by the quadrant q it lies in (0: re >= 0   *)
(* and im >= 0, then counter-clockwise), its angular offset off from the   *)
(* diagonal of that quadrant in steps of OffsetStep degrees, and its       *)
(* magnitude.                                                              *)
(***************************************************************************)
IR_UW_LENGTH == 12
IR_UW_DL == <<0, 2, 2, 2, 2, 0, 0, 0, 2, 0, 0, 2>>
IR_UW_UL == <<2, 2, 0, 0, 0, 2, 0, 0, 2, 0, 2, 2>>
dqpsk_map == <<0, 2, 3, 1>>
CONFIDENCE_ANGLE == 22
MAGNITUDE_DROP == 8
MAX_LOW_COUNT == 3
UW_MAX_ERRORS == 2
UW_SOFT_THRESHOLD == 3
OffsetStep == 15       \* degrees per unit of off
MaxOff == 2            \* |off| of the samples drawn: up to 30 degrees
StrongMag == 16        \* magnitude of a symbol inside the burst
WeakMag == 1           \* magnitude of a sample after the end of the burst

Sample(q, off, mag) == [q |-> q, off |-> off, mag |-> mag]
SampleSet ==
    {Sample(q, off, mag) :
        q \in 0 .. 3, off \in {-MaxOff, 0, MaxOff}, mag \in {WeakMag, StrongMag}}
\* the second sample that differs from the unique word
ShiftSet ==
    {Sample(1, -MaxOff, StrongMag), Sample(1, MaxOff, StrongMag),
     Sample(0, 0, WeakMag)}

UniqueWord(direction) ==
    IF direction = "DIR_DOWNLINK" THEN IR_UW_DL ELSE IR_UW_UL
Ideal(uw) == [i \in 1 .. Len(uw) |-> Sample(uw[i], 0, StrongMag)]
Weak3 ==
    <<Sample(0, 0, WeakMag), Sample(1, MaxOff, WeakMag), Sample(2, 0, WeakMag)>>
Tails ==
    {<<>>, <<Sample(1, MaxOff, StrongMag)>>,
     <<Sample(3, -MaxOff, StrongMag)>> \o Weak3,
     <<Sample(2, MaxOff, StrongMag), Sample(0, 0, WeakMag),
       Sample(1, 0, StrongMag)>>}
\* the bursts demodulated: a unique word with up to two samples replaced,
\* followed by a tail, and the bursts shorter than a unique word
Bursts ==
    {[i \in 1 .. IR_UW_LENGTH |->
            IF i = p1 THEN v1 ELSE IF i = p2 THEN v2
            ELSE Ideal(UniqueWord(d))[i]] \o t :
        d \in {"DIR_DOWNLINK", "DIR_UPLINK"},
        p1 \in 1 .. IR_UW_LENGTH, p2 \in 1 .. (IR_UW_LENGTH + 1),
        v1 \in SampleSet, v2 \in ShiftSet, t \in Tails}
    \cup {SubSeq(Ideal(UniqueWord(d)), 1, n) :
            d \in {"DIR_DOWNLINK", "DIR_UPLINK"},
            n \in 0 .. (IR_UW_LENGTH - 1)}

\* demod_qpsk, the first loop: the number of symbols kept, where the frame
\* ends at MAX_LOW_COUNT consecutive samples below max_mag / MAGNITUDE_DROP
RECURSIVE FrameLength(_, _, _, _)
FrameLength(burst, i, max_mag, low_count) ==
    IF i > Len(burst) THEN Len(burst)
    ELSE LET mx == Max(max_mag, burst[i].mag)
         IN  IF burst[i].mag * MAGNITUDE_DROP < mx
             THEN IF low_count + 1 >= MAX_LOW_COUNT
                  THEN i - MAX_LOW_COUNT
                  ELSE FrameLength(burst, i + 1, mx, low_count + 1)
             ELSE FrameLength(burst, i + 1, mx, 0)

RECURSIVE SumOver(_, _, _)
SumOver(f, from, to) ==
    IF from > to THEN 0
    ELSE IF from = to THEN f[from]
    ELSE SumOver(f, from, (from + to) \div 2)
             + SumOver(f, (from + to) \div 2 + 1, to)

\* demod_qpsk: hard decisions, mean level (as sum and count), confidence
demod_qpsk(burst) ==
    LET n == FrameLength(burst, 1, 0, 0)
        n_ok == Cardinality({i \in 1 .. n :
                    Abs(burst[i].off) * OffsetStep <= CONFIDENCE_ANGLE})
    IN  [n |-> n,
         symbols |-> [i \in 1 .. n |-> burst[i].q],
         level |-> <<SumOver([i \in 1 .. n |-> burst[i].mag], 1, n), n>>,
         confidence |-> IF n > 0 THEN (100 * n_ok) \div n ELSE 0]

\* mutant: old_sym is read back from the array after the store, so it is
\* the decoded symbol
dqpsk_step_decoded(symbols, i, old_sym) ==
    [symbols |-> [symbols EXCEPT ![i] =
                     dqpsk_map[((symbols[i] - old_sym + 4) % 4) + 1]],
     old_sym |-> dqpsk_map[((symbols[i] - old_sym + 4) % 4) + 1]]

\* one iteration of the loop of decode_dqpsk: s is read and kept in old_sym
\* before symbols[i] is overwritten
dqpsk_step(symbols, i, old_sym) ==
    [symbols |-> [symbols EXCEPT ![i] =
                     dqpsk_map[((symbols[i] - old_sym + 4) % 4) + 1]],
     old_sym |-> symbols[i]]

RECURSIVE DqpskLoop(_, _, _)
DqpskLoop(st, i, n) ==
    IF i > n THEN st.symbols
    ELSE DqpskLoop(dqpsk_step(st.symbols, i, st.old_sym), i + 1, n)

\* decode_dqpsk, in place
decode_dqpsk(symbols) ==
    DqpskLoop([symbols |-> symbols, old_sym |-> 0], 1, Len(symbols))

\* the distance without the wrap: a 3-step difference counts as 3
SymbolDistance_no_wrap(symbols, uw, k) ==
    SumOver([i \in 1 .. k |-> Abs(symbols[i] - uw[i])], 1, k)

\* the distance of check_sync_word over the first k symbols
SymbolDistance(symbols, uw, k) ==
    SumOver([i \in 1 .. k |->
                LET diff == Abs(symbols[i] - uw[i])
                IN  IF diff = 3 THEN 1 ELSE diff], 1, k)

\* a length test dropped: the symbols present are compared
check_sync_word_any_length(symbols, n, direction) ==
    SymbolDistance(symbols, UniqueWord(direction), Min(n, IR_UW_LENGTH))
        <= UW_MAX_ERRORS

check_sync_word(symbols, n, direction) ==
    IF n < IR_UW_LENGTH THEN FALSE
    ELSE SymbolDistance(symbols, UniqueWord(direction), IR_UW_LENGTH)
            <= UW_MAX_ERRORS

\* soft_check_sync_word in units of OffsetStep degrees: the sum over the
\* unique word of the angular distance, wrapped to [-180, 180] degrees;
\* -1 stands for the 999.0 returned when there are too few symbols
soft_check_sync_word(samples, n, direction) ==
    IF n < IR_UW_LENGTH THEN -1
    ELSE LET uw == UniqueWord(direction)
             quad == 90 \div OffsetStep
             SoftDiff(i) ==
                LET diff == (samples[i].q - uw[i]) * quad + samples[i].off
                IN  IF diff > 2 * quad THEN diff - 4 * quad
                    ELSE IF diff < -(2 * quad) THEN diff + 4 * quad
                    ELSE diff
         IN  SumOver([i \in 1 .. IR_UW_LENGTH |-> Abs(SoftDiff(i))],
                     1, IR_UW_LENGTH)

\* the outcomes of min_err > UW_SOFT_THRESHOLD: a sum that equals the
\* threshold exactly goes either way with the rounding of the float sum
SoftRejects(dl_err, ul_err) ==
    IF dl_err < 0 \/ ul_err < 0 THEN {TRUE}
    ELSE LET min_err == Min(dl_err, ul_err)
             limit == UW_SOFT_THRESHOLD * (90 \div OffsetStep)
         IN  IF min_err > limit THEN {TRUE}
             ELSE IF min_err < limit THEN {FALSE}
             ELSE {TRUE, FALSE}

map_symbols_to_bits(symbols) ==
    [k \in 1 .. 2 * Len(symbols) |->
        IF k % 2 = 1 THEN (symbols[(k + 1) \div 2] \div 2) % 2
        ELSE symbols[k \div 2] % 2]

NoFrame == [n_symbols |-> 0, n_payload_symbols |-> 0, n_bits |-> 0,
            bits |-> <<>>, confidence |-> 0, level |-> <<0, 0>>,
            direction |-> "DIR_UNKNOWN", hard |-> <<>>]

\* qpsk_demod from step 3 on: the possible results, each the return value
\* and the frame built; hard records the symbols handed to decode_dqpsk
qpsk_demod(burst, in_direction) ==
    LET h == demod_qpsk(burst)
        dl_ok == check_sync_word(h.symbols, h.n, "DIR_DOWNLINK")
        ul_ok == check_sync_word(h.symbols, h.n, "DIR_UPLINK")
        dl_err == soft_check_sync_word(burst, h.n, "DIR_DOWNLINK")
        ul_err == soft_check_sync_word(burst, h.n, "DIR_UPLINK")
        decoded == decode_dqpsk(h.symbols)
        Frame1(direction) ==
            [ret |-> 1,
             frame |-> [n_symbols |-> h.n,
                        n_payload_symbols |-> h.n - IR_UW_LENGTH,
                        n_bits |-> h.n * 2,
                        bits |-> map_symbols_to_bits(decoded),
                        confidence |-> h.confidence,
                        level |-> h.level,
                        direction |-> direction,
                        hard |-> h.symbols]]
    IN  IF ~dl_ok /\ ~ul_ok
        THEN {IF rejected THEN [ret |-> 0, frame |-> NoFrame]
              ELSE Frame1(IF ul_err < dl_err THEN "DIR_UPLINK"
                          ELSE "DIR_DOWNLINK") :
                rejected \in SoftRejects(dl_err, ul_err)}
        ELSE {Frame1(IF ul_ok /\ ~dl_ok THEN "DIR_UPLINK"
                     ELSE IF dl_ok /\ ~ul_ok THEN "DIR_DOWNLINK"
                     ELSE in_direction)}

QpskParked ==
    /\ pll_out = <<>>
    /\ demod_ret = -1
    /\ demod = NoFrame

QpskStart ==
    /\ pll_out \in Bursts
    /\ demod_ret = -1
    /\ demod = NoFrame

\* one call of qpsk_demod by the frame consumer
QpskDemod ==
    /\ demod_ret = -1
    /\ \E r \in qpsk_demod(pll_out, "DIR_UNKNOWN") :
        /\ demod_ret' = r.ret
        /\ demod' = r.frame
    /\ UNCHANGED pll_out
    /\ UNCHANGED OutsideQpsk

NextQpsk == QpskDemod

(***************************************************************************)
(* frame_decode.c: GF(2) arithmetic and the BCH syndrome tables.  A        *)
(* uint32_t is a natural number here; no word of the decoders has bit 31   *)
(* set, so every value stays below 2^31.                                   *)
(***************************************************************************)
BCH_POLY_RA == 1207        \* decimal in the source: 10010110111 in binary
BCH_POLY_HDR == 29
BCH_RA_DATA == 21
CHASE_FLIP_BITS == 5

\* a ^ b on uint32_t
RECURSIVE XorWidth(_, _, _)
XorWidth(a, b, w) ==
    IF a = 0 THEN b
    ELSE IF b = 0 THEN a
    ELSE IF w = 1 THEN (a + b) % 2
    ELSE XorWidth(a % (2 ^ (w \div 2)), b % (2 ^ (w \div 2)), w \div 2)
             + (2 ^ (w \div 2))
                   * XorWidth(a \div (2 ^ (w \div 2)),
                              b \div (2 ^ (w \div 2)), w \div 2)

Xor(a, b) == XorWidth(a, b, 32)

\* val & (1u << i)
Bit(val, i) == i <= 30 /\ (val \div (2 ^ i)) % 2 = 1

\* 32 - __builtin_clz(poly)
RECURSIVE BitLength(_)
BitLength(v) == IF v = 0 THEN 0 ELSE 1 + BitLength(v \div 2)

\* the number of bits set in a word
Weight(v) == Cardinality({i \in 0 .. 30 : Bit(v, i)})

\* bits_to_uint: the first n bits, most significant first
RECURSIVE BitsValue(_, _, _)
BitsValue(bits, from, to) ==
    IF from = to THEN bits[from] % 2
    ELSE BitsValue(bits, from, (from + to) \div 2)
                 * (2 ^ (to - (from + to) \div 2))
             + BitsValue(bits, (from + to) \div 2 + 1, to)

bits_to_uint(bits, n) == IF n = 0 THEN 0 ELSE BitsValue(bits, 1, n)

\* uint_to_bits: the n low bits of val, most significant first
uint_to_bits(val, n) == [i \in 1 .. n |-> (val \div (2 ^ (n - i))) % 2]

\* the loop of gf2_remainder, i counting down to last
RECURSIVE gf2_loop(_, _, _, _, _)
gf2_loop(poly, poly_bits, val, i, last) ==
    IF i < last THEN val
    ELSE IF Bit(val, i)
    THEN gf2_loop(poly, poly_bits,
                  Xor(val, poly * (2 ^ (i - poly_bits + 1))), i - 1, last)
    ELSE gf2_loop(poly, poly_bits, val, i - 1, last)

\* the loop ending one bit early: i >= poly_bits
gf2_remainder_short(poly, val) ==
    IF val = 0 THEN 0
    ELSE gf2_loop(poly, BitLength(poly), val, 31, BitLength(poly))

gf2_remainder(poly, val) ==
    IF val = 0 THEN 0
    ELSE gf2_loop(poly, BitLength(poly), val, 31, BitLength(poly) - 1)

\* build_syndrome_table, "Single-bit errors": the syndrome r of every
\* val = 1u << b1, with b1
SingleBitErrors(poly, nbits) ==
    {<<gf2_remainder(poly, 2 ^ b1), b1>> : b1 \in 0 .. (nbits - 1)}

\* build_syndrome_table, "Two-bit errors": the syndrome r of every
\* val = (1u << b1) | (1u << b2) with b1 < b2, with b1 and b2
TwoBitErrors(poly, nbits) ==
    UNION {{<<gf2_remainder(poly, (2 ^ b1) + (2 ^ b2)), b1, b2>> :
                b2 \in (b1 + 1) .. (nbits - 1)} : b1 \in 0 .. (nbits - 1)}

\* build_syndrome_table: what its loops leave in entry r.  The single-bit
\* loop writes without a test, so the last b1 of syndrome r stays; the
\* two-bit loop writes free entries only (syn[r].errs < 0), so the first pair
\* of syndrome r in the order of the loops stays, and only where no single
\* bit has that syndrome; an entry never written keeps errs = -1.
build_syndrome_table(poly, nbits, synbits, max_errors, table_size) ==
    LET singles == SingleBitErrors(poly, nbits)
        pairs == IF max_errors >= 2 THEN TwoBitErrors(poly, nbits) ELSE {}
    IN  [r \in 0 .. (table_size - 1) |->
            LET one == {e \in singles : e[1] = r}
                two == {e \in pairs : e[1] = r}
            IN  IF one # {}
                THEN LET last == CHOOSE e \in one : \A o \in one : o[2] <= e[2]
                     IN  [errs |-> 1, locator |-> 2 ^ last[2]]
                ELSE IF two # {}
                THEN LET first == CHOOSE e \in two : \A o \in two :
                                     \/ e[2] < o[2]
                                     \/ e[2] = o[2] /\ e[3] <= o[3]
                     IN  [errs |-> 2,
                          locator |-> (2 ^ first[2]) + (2 ^ first[3])]
                ELSE [errs |-> -1, locator |-> 0]]

\* frame_decode_init
syn_ra == build_syndrome_table(BCH_POLY_RA, 31, 10, 2, 1024)
syn_hdr == build_syndrome_table(BCH_POLY_HDR, 7, 4, 1, 16)

\* a decoder that trusts the entries of single errors only
bch_31_21_correct_one_error(syndrome, locator) ==
    IF syndrome = 0 THEN [ret |-> 0, locator |-> 0]
    ELSE IF syndrome < 1024 /\ syn_ra[syndrome].errs = 1
    THEN [ret |-> 1, locator |-> syn_ra[syndrome].locator]
    ELSE [ret |-> -1, locator |-> locator]

\* bch_31_21_correct: the return value and *locator, which keeps the
\* caller's value when the syndrome is not in the table
bch_31_21_correct(syndrome, locator) ==
    IF syndrome = 0 THEN [ret |-> 0, locator |-> 0]
    ELSE IF syndrome < 1024 /\ syn_ra[syndrome].errs >= 0
    THEN [ret |-> syn_ra[syndrome].errs, locator |-> syn_ra[syndrome].locator]
    ELSE [ret |-> -1, locator |-> locator]

\* a codeword of the code of poly: the data bits above the check bits, as
\* chase_bch_decode_p splits a word of zero syndrome (val >> 10, val & 0x3FF)
Codeword(poly, data) ==
    LET shifted == data * (2 ^ (BitLength(poly) - 1))
    IN  shifted + gf2_remainder(poly, shifted)

\* the data words and the error patterns of the words corrected
BchData == {0, 1, 699050, 2 ^ BCH_RA_DATA - 1}
BchErrors ==
    {0} \cup {2 ^ b1 : b1 \in 0 .. 30}
        \cup UNION {{(2 ^ b1) + (2 ^ b2) : b2 \in (b1 + 1) .. 30} : b1 \in 0 .. 30}
        \cup {7, 2 ^ 30 + 2 ^ 15 + 1, 2 ^ 20 + 2 ^ 10 + 2 ^ 5 + 2}

BchPending == [ret |-> -2, locator |-> 0]

BchParked ==
    /\ bch_received = 0
    /\ bch_error = 0
    /\ bch_result = BchPending

BchStart ==
    /\ bch_error \in BchErrors
    /\ \E data \in BchData :
           bch_received = Xor(Codeword(BCH_POLY_RA, data), bch_error)
    /\ bch_result = BchPending

\* the syndrome of a received word, looked up by bch_31_21_correct
BchCorrect ==
    /\ bch_result = BchPending
    /\ bch_result' =
           bch_31_21_correct(gf2_remainder(BCH_POLY_RA, bch_received), 0)
    /\ UNCHANGED <<bch_received, bch_error>>
    /\ UNCHANGED OutsideBch

NextBch == BchCorrect

(***************************************************************************)
(* frame_decode.c: de-interleaving, the Chase decoder and frame_decode.     *)
(* Bit arrays are sequences, element k of the C array being element k + 1; *)
(* a soft value (LLR) is an integer, the decoder only compares them; the   *)
(* empty sequence stands for a null llr pointer.                           *)
(***************************************************************************)
access_dl == <<0,0,1,1,0,0,0,0,0,0,1,1,0,0,0,0,1,1,1,1,0,0,1,1>>
access_ul == <<1,1,0,0,1,1,0,0,0,0,1,1,1,1,0,0,1,1,1,1,1,1,0,0>>

\* an access check that lets one differing bit pass
memcmp24_one_off(bits, code) ==
    Cardinality({i \in 1 .. 24 : bits[i] # code[i]}) <= 1

\* memcmp(frame->bits, code, 24) == 0
memcmp24(bits, code) == \A i \in 1 .. 24 : bits[i] = code[i]

\* the loops "for (s = first; s >= ...; s -= step)" of the de-interleavers:
\* n symbols, both bits of each symbol in order
Strided(in, first, step, n) ==
    [p \in 1 .. (2 * n) |->
        in[2 * (first - step * ((p - 1) \div 2)) + ((p - 1) % 2) + 1]]

\* de_interleave and de_interleave_llr: 64 values to 2 x 32
de_interleave(in) == <<Strided(in, 31, 2, 16), Strided(in, 30, 2, 16)>>

\* de_interleave3, and the same permutation of the LLR in frame_decode
de_interleave3(in) ==
    <<Strided(in, 47, 3, 16), Strided(in, 46, 3, 16), Strided(in, 45, 3, 16)>>

\* chase_bch_decode_p: the partial selection sort of the positions by LLR,
\* step i; the first of several equal minima is taken
RECURSIVE LeastReliable(_, _, _)
LeastReliable(llr32, pos, i) ==
    IF i >= CHASE_FLIP_BITS THEN pos
    ELSE LET min_idx ==
                 CHOOSE m \in (i + 1) .. 31 : \A j \in (i + 1) .. 31 :
                     \/ llr32[pos[m] + 1] < llr32[pos[j] + 1]
                     \/ llr32[pos[m] + 1] = llr32[pos[j] + 1] /\ m <= j
         IN  LeastReliable(llr32,
                 [pos EXCEPT ![i + 1] = pos[min_idx], ![min_idx] = pos[i + 1]],
                 i + 1)

\* out_data and out_check written from a word, with the return value
Decoded(val, errs) ==
    [ret |-> errs,
     data |-> uint_to_bits(val \div 1024, BCH_RA_DATA),
     check |-> uint_to_bits(val % 1024, 10)]

\* return -1: out_data and out_check are not written
Undecoded == [ret |-> -1, data |-> <<>>, check |-> <<>>]

\* a word XORed with the locator of its table entry, or nothing for an
\* entry with errs < 0
EntryDecode(val, entry) ==
    IF entry.errs >= 0 THEN Decoded(Xor(val, entry.locator), entry.errs)
    ELSE Undecoded

SyndromeDecode(val, syndrome) ==
    IF syndrome = 0 THEN Decoded(val, 0)
    ELSE IF syndrome < 1024 THEN EntryDecode(val, syn_ra[syndrome])
    ELSE Undecoded

\* the standard decode at the head of chase_bch_decode_p and inside its
\* loop: a word of zero syndrome or of a syndrome in the table
TableDecode(val) == SyndromeDecode(val, gf2_remainder(BCH_POLY_RA, val))

\* test = val ^ flip, flip being the flip_mask bits selected by mask
Flipped(val, pos, mask) ==
    Xor(val, SumOver([b \in 1 .. CHASE_FLIP_BITS |->
                         IF Bit(mask, b - 1) THEN 2 ^ (30 - pos[b]) ELSE 0],
                     1, CHASE_FLIP_BITS))

\* "for (mask = 1; mask < n_patterns; mask++)": the first mask whose word
\* decodes; tried holds every mask with what its word decodes to
FirstDecoded(tried) ==
    LET found == {t \in tried : t[2].ret >= 0}
    IN  IF found = {} THEN Undecoded
        ELSE (CHOOSE t \in found : \A o \in found : t[1] <= o[1])[2]

ChaseSearch(val, pos) ==
    FirstDecoded({<<mask, TableDecode(Flipped(val, pos, mask))>> :
                     mask \in 1 .. (2 ^ CHASE_FLIP_BITS - 1)})

ChaseAfter(val, llr32, standard) ==
    IF standard.ret >= 0 THEN standard
    ELSE IF llr32 = <<>> THEN Undecoded
    ELSE ChaseSearch(val,
                     LeastReliable(llr32, [i \in 1 .. 31 |-> i - 1], 0))

ChaseWord(val, llr32) == ChaseAfter(val, llr32, TableDecode(val))

chase_bch_decode_p(block32, llr32) ==
    ChaseWord(bits_to_uint(block32, 31), llr32)

\* the parity gate left out
check_parity32_unchecked(block32, bch_data, n_data, bch_check, n_check) ==
    TRUE

\* check_parity32
check_parity32(block32, bch_data, n_data, bch_check, n_check) ==
    (SumOver(bch_data, 1, n_data) + SumOver(bch_check, 1, n_check)
        + block32[32]) % 2 = 0

\* extract_uint
extract_uint(bits, n) == bits_to_uint(bits, n)

\* extract_signed12: bits[0] is the sign, bits[1..11] the magnitude
extract_signed12(bits) ==
    LET mag == bits_to_uint(SubSeq(bits, 2, 12), 11)
    IN  IF bits[1] = 1 THEN mag - 2048 ELSE mag

\* the largest r in lo .. hi with r * r <= n
RECURSIVE IsqrtIn(_, _, _)
IsqrtIn(n, lo, hi) ==
    IF lo >= hi THEN lo
    ELSE LET mid == (lo + hi + 1) \div 2
         IN  IF mid * mid <= n THEN IsqrtIn(n, mid, hi)
             ELSE IsqrtIn(n, lo, mid - 1)

\* (int)(sqrt((double)n) * 4.0) for 0 <= n < 2^27: the double square root is
\* correctly rounded, the product by 4 is exact, and 4 * sqrt(n) is an
\* integer or further from every integer than the rounding error, so the
\* cast gives the integer part of sqrt(16 * n)
TruncSqrtTimes4(n) == IsqrtIn(16 * n, 0, 46340)

\* the paging blocks of parse_ira from offset on: tmsi kept as its 32 bits
RECURSIVE IraPages(_, _, _, _)
IraPages(bch_data, n_bits, offset, pages) ==
    IF ~(offset + 42 <= n_bits /\ Len(pages) < 12) THEN pages
    ELSE LET page == SubSeq(bch_data, offset + 1, offset + 42)
         IN  IF \A i \in 1 .. 42 : page[i] = 1 THEN pages
             ELSE IraPages(bch_data, n_bits, offset + 42,
                      Append(pages,
                             [tmsi |-> SubSeq(page, 1, 32),
                              msc_id |-> extract_uint(SubSeq(page, 35, 39), 5)]))

NoIra == [sat_id |-> 0, beam_id |-> 0, pos |-> <<0, 0, 0>>, alt |-> 0,
          pages |-> <<>>]

\* the fields parse_ira fills from the position
IraFields(bch_data, n_bits, pos) ==
    [sat_id |-> extract_uint(SubSeq(bch_data, 1, 7), 7),
     beam_id |-> extract_uint(SubSeq(bch_data, 8, 13), 6),
     pos |-> pos,
     alt |-> TruncSqrtTimes4(pos[1] * pos[1] + pos[2] * pos[2]
                                 + pos[3] * pos[3]) - 6378 + 23,
     pages |-> IraPages(bch_data, n_bits, 63, <<>>)]

\* parse_ira without the latitude and the longitude (atan2 of the position,
\* kept here as the position itself)
parse_ira(bch_data, n_bits) ==
    IF n_bits < 63 THEN NoIra
    ELSE IraFields(bch_data, n_bits,
                   <<extract_signed12(SubSeq(bch_data, 14, 25)),
                     extract_signed12(SubSeq(bch_data, 26, 37)),
                     extract_signed12(SubSeq(bch_data, 38, 49))>>)

NoIbc == [bc_type |-> 0, sat_id |-> 0, beam_id |-> 0, timeslot |-> 0,
          sv_blocking |-> 0, iri_time |-> <<>>]

\* parse_ibc: iri_time kept as its 32 bits, empty for the 0 of the memset
parse_ibc(bch_data, n_bits, hdr_type) ==
    IF n_bits < 42 THEN [NoIbc EXCEPT !.bc_type = hdr_type]
    ELSE [bc_type |-> hdr_type,
          sat_id |-> extract_uint(SubSeq(bch_data, 1, 7), 7),
          beam_id |-> extract_uint(SubSeq(bch_data, 8, 13), 6),
          timeslot |-> bch_data[15],
          sv_blocking |-> bch_data[16],
          iri_time |->
              IF n_bits >= 84 /\ extract_uint(SubSeq(bch_data, 43, 48), 6) = 1
              THEN SubSeq(bch_data, 53, 84) ELSE <<>>]

\* a block as frame_decode handles it: the 32 bits de-interleaved and what
\* chase_bch_decode_p made of them
BlockRecord(block32, d) ==
    [block32 |-> block32, ret |-> d.ret, data |-> d.data, check |-> d.check]

BlockOf(block32, llr32) ==
    BlockRecord(block32, chase_bch_decode_p(block32, llr32))

\* e >= 0 && check_parity32(...)
BlockPasses(b) ==
    b.ret >= 0 /\ check_parity32(b.block32, b.data, BCH_RA_DATA, b.check, 10)

\* the two blocks of the 64 bits behind offset: de_interleave, the same for
\* the LLR if there is one, chase_bch_decode_p on each
BlockPair(di, li) == <<BlockOf(di[1], li[1]), BlockOf(di[2], li[2])>>

PairAt(data, data_llr, offset) ==
    BlockPair(de_interleave(SubSeq(data, offset + 1, offset + 64)),
              IF data_llr = <<>> THEN <<<<>>, <<>>>>
              ELSE de_interleave(SubSeq(data_llr, offset + 1, offset + 64)))

\* "Remaining 64-bit blocks with Chase BCH + parity": the loop of both
\* branches of frame_decode, from offset on, up to limit bits of data and
\* cap bits of stream; blocks are the blocks copied to bch_stream so far,
\* pair the two blocks at offset
RECURSIVE RemainingBlocks(_, _, _, _, _, _)
RECURSIVE CopyPair(_, _, _, _, _, _, _)
\* the loop with "continue" in place of each "break"
CopyPair_continue(data, data_llr, offset, limit, cap, blocks, pair) ==
    IF pair[1].ret < 0 \/ pair[2].ret < 0
    THEN RemainingBlocks(data, data_llr, offset + 64, limit, cap, blocks)
    ELSE IF ~BlockPasses(pair[1])
    THEN RemainingBlocks(data, data_llr, offset + 64, limit, cap, blocks)
    ELSE IF ~BlockPasses(pair[2])
    THEN RemainingBlocks(data, data_llr, offset + 64, limit, cap, blocks)
    ELSE RemainingBlocks(data, data_llr, offset + 64, limit, cap,
                         blocks \o pair)

CopyPair(data, data_llr, offset, limit, cap, blocks, pair) ==
    IF pair[1].ret < 0 \/ pair[2].ret < 0 THEN blocks
    ELSE IF ~BlockPasses(pair[1]) THEN blocks
    ELSE IF ~BlockPasses(pair[2]) THEN blocks
    ELSE RemainingBlocks(data, data_llr, offset + 64, limit, cap,
                         blocks \o pair)

RemainingBlocks(data, data_llr, offset, limit, cap, blocks) ==
    IF ~(offset + 64 <= limit
            /\ BCH_RA_DATA * Len(blocks) + 2 * BCH_RA_DATA <= cap)
    THEN blocks
    ELSE CopyPair(data, data_llr, offset, limit, cap, blocks,
                  PairAt(data, data_llr, offset))

\* bch_stream: the data bits of the blocks copied, in order
RECURSIVE StreamOf(_)
StreamOf(blocks) ==
    IF blocks = <<>> THEN <<>>
    ELSE StreamOf(SubSeq(blocks, 1, Len(blocks) - 1))
             \o blocks[Len(blocks)].data

Rejected(checked, is_dl, is_ul) ==
    [ret |-> 0, type |-> "FRAME_UNKNOWN", checked |-> checked,
     is_dl |-> is_dl, is_ul |-> is_ul, blocks |-> <<>>,
     ibc |-> NoIbc, ira |-> NoIra]

\* the 6-bit header of an IBC frame: whether its syndrome is zero or in the
\* table, and the header corrected
IbcHeaderOk(hdr_syn) ==
    hdr_syn = 0 \/ (hdr_syn < 16 /\ syn_hdr[hdr_syn].errs >= 0)

IbcHeaderCorrected(hdr_val, hdr_syn) ==
    IF hdr_syn = 0 THEN hdr_val ELSE Xor(hdr_val, syn_hdr[hdr_syn].locator)

IbcBlocks(data, data_llr, data_len, hdr_val, hdr_syn, pair) ==
    IF IbcHeaderOk(hdr_syn) /\ BlockPasses(pair[1]) /\ BlockPasses(pair[2])
    THEN [blocks |->
              RemainingBlocks(data, data_llr, 6 + 64, Min(262, data_len),
                              256, pair),
          \* uint_to_bits(hdr_val >> 4, hdr_data, 3)
          bc_type |-> (IbcHeaderCorrected(hdr_val, hdr_syn) \div 16) % 8]
    ELSE [blocks |-> <<>>, bc_type |-> 0]

IbcHeaderBlocks(data, data_llr, data_len, hdr_val) ==
    IbcBlocks(data, data_llr, data_len, hdr_val,
              gf2_remainder(BCH_POLY_HDR, hdr_val),
              PairAt(data, data_llr, 6))

\* "Try IBC detection": the blocks of an IBC frame and its header type, or
\* no blocks when the branch falls through
TryIbc(data, data_llr, data_len) ==
    IF data_len < 6 + 64 THEN [blocks |-> <<>>, bc_type |-> 0]
    ELSE IbcHeaderBlocks(data, data_llr, data_len, bits_to_uint(data, 6))

\* the three blocks of the 96 bits at the head of an IRA frame
BlockTriple(ra, la) ==
    <<BlockOf(ra[1], la[1]), BlockOf(ra[2], la[2]), BlockOf(ra[3], la[3])>>

IraBlocks(data, data_llr, data_len, triple) ==
    IF \A k \in 1 .. 3 : triple[k].ret >= 0 /\ BlockPasses(triple[k])
    THEN RemainingBlocks(data, data_llr, 96, data_len, 512, triple)
    ELSE <<>>

\* "Try IRA detection": the blocks of an IRA frame, or none
TryIra(data, data_llr, data_len) ==
    IF data_len < 96 THEN <<>>
    ELSE IraBlocks(data, data_llr, data_len,
                   BlockTriple(de_interleave3(SubSeq(data, 1, 96)),
                               IF data_llr = <<>> THEN <<<<>>, <<>>, <<>>>>
                               ELSE de_interleave3(SubSeq(data_llr, 1, 96))))

\* the end of frame_decode: FRAME_IRA with parse_ira if the IRA branch
\* copied blocks, return 0 otherwise
IraOrNothing(is_dl, is_ul, ira) ==
    IF ira # <<>>
    THEN [Rejected(TRUE, is_dl, is_ul) EXCEPT
             !.ret = 1, !.type = "FRAME_IRA", !.blocks = ira,
             !.ira = parse_ira(StreamOf(ira), BCH_RA_DATA * Len(ira))]
    ELSE Rejected(TRUE, is_dl, is_ul)

\* FRAME_IBC with parse_ibc if the IBC branch copied blocks, the IRA branch
\* otherwise
IbcOrIra(is_dl, is_ul, data, data_llr, data_len, ibc) ==
    IF ibc.blocks # <<>>
    THEN [Rejected(TRUE, is_dl, is_ul) EXCEPT
             !.ret = 1, !.type = "FRAME_IBC", !.blocks = ibc.blocks,
             !.ibc = parse_ibc(StreamOf(ibc.blocks),
                               BCH_RA_DATA * Len(ibc.blocks), ibc.bc_type)]
    ELSE IraOrNothing(is_dl, is_ul, TryIra(data, data_llr, data_len))

DecodeData(is_dl, is_ul, data, data_llr, data_len) ==
    IbcOrIra(is_dl, is_ul, data, data_llr, data_len,
             TryIbc(data, data_llr, data_len))

AccessChecked(frame, is_dl, is_ul) ==
    IF ~is_dl /\ ~is_ul THEN Rejected(TRUE, is_dl, is_ul)
    ELSE DecodeData(is_dl, is_ul,
                    SubSeq(frame.bits, 25, frame.n_bits),
                    IF frame.llr = <<>> THEN <<>>
                    ELSE SubSeq(frame.llr, 25, frame.n_bits),
                    frame.n_bits - 24)

\* frame_decode: the return value, out->type with the parsed fields, and of
\* the locals the outcome of the access check and the blocks copied to
\* bch_stream
frame_decode(frame) ==
    IF frame.n_bits < 24 THEN Rejected(FALSE, FALSE, FALSE)
    ELSE AccessChecked(frame, memcmp24(frame.bits, access_dl),
                       memcmp24(frame.bits, access_ul))

(***************************************************************************)
(* ida_decode.c: the IDA frame decoder in front of the reassembly.         *)
(***************************************************************************)
BCH_POLY_DA == 3545
BCH_DA_SYN == 11
BCH_DA_DATA == 20
BCH_DA_TABLE == 2048
BCH_POLY_LCW1 == 29
BCH_POLY_LCW2 == 465
BCH_POLY_LCW3 == 41

lcw_perm ==
    <<40, 39, 36, 35, 32, 31, 28, 27, 24, 23,
      20, 19, 16, 15, 12, 11,  8,  7,  4,  3,
      41, 38, 37, 34, 33, 30, 29, 26, 25, 22,
      21, 18, 17, 14, 13, 10,  9,  6,  5,  2,
       1, 46, 45, 44, 43, 42>>

\* build_syn: the loops of build_syndrome_table, without its synbits
build_syn(poly, nbits, max_errors, table_size) ==
    build_syndrome_table(poly, nbits, BitLength(poly) - 1, max_errors,
                         table_size)

\* ida_decode_init
syn_da == build_syn(BCH_POLY_DA, 31, 2, BCH_DA_TABLE)
syn_lcw1 == build_syn(BCH_POLY_LCW1, 7, 1, 16)
syn_lcw2 == build_syn(BCH_POLY_LCW2, 14, 1, 256)
syn_lcw3 == build_syn(BCH_POLY_LCW3, 26, 2, 32)

\* "if (s != 0) { if (s >= size || syn[s].errs < 0) return 0; v ^= ... }":
\* the word corrected, or -1 for the return
CorrectedEntry(val, entry) ==
    IF entry.errs < 0 THEN -1 ELSE Xor(val, entry.locator)

CorrectedBy(syn, table_size, val, s) ==
    IF s = 0 THEN val
    ELSE IF s >= table_size THEN -1
    ELSE CorrectedEntry(val, syn[s])

Corrected(poly, syn, table_size, val) ==
    CorrectedBy(syn, table_size, val, gf2_remainder(poly, val))

\* the pair swap and the permutation of decode_lcw
lcw_bits_of(data) ==
    LET swapped == [k \in 1 .. 46 |->
                       IF k % 2 = 1 THEN data[k + 1] ELSE data[k - 1]]
    IN  [k \in 1 .. 46 |-> swapped[lcw_perm[k]]]

\* the end of decode_lcw: the three components corrected, or -1
LcwResult(v1, v2, v3) ==
    IF v1 < 0 \/ v2 < 0 \/ v3 < 0 THEN [lcw_ok |-> 0, ft |-> 0]
    ELSE [lcw_ok |-> 1, ft |-> (v1 \div 16) % 8]

LcwComponents(lcw_bits) ==
    LcwResult(Corrected(BCH_POLY_LCW1, syn_lcw1, 16,
                        bits_to_uint(lcw_bits, 7)),
              Corrected(BCH_POLY_LCW2, syn_lcw2, 256,
                        2 * bits_to_uint(SubSeq(lcw_bits, 8, 20), 13)),
              Corrected(BCH_POLY_LCW3, syn_lcw3, 32,
                        bits_to_uint(SubSeq(lcw_bits, 21, 46), 26)))

\* decode_lcw: lcw_ok and ft
decode_lcw(data, data_len) ==
    IF data_len < 46 THEN [lcw_ok |-> 0, ft |-> 0]
    ELSE LcwComponents(lcw_bits_of(data))

\* de_interleave_n: the symbols n_sym - 1, n_sym - 3, ... down to 1, and
\* n_sym - 2, n_sym - 4, ... down to 0
de_interleave_n(in, n_sym) ==
    <<Strided(in, n_sym - 1, 2, n_sym \div 2),
      Strided(in, n_sym - 2, 2, n_sym \div 2)>>

\* the BCH blocks of 31 bits of descramble_payload, decoded in order until
\* one is uncorrectable or the stream is full: the stream and whether the
\* loop ran to its end; val is the first block corrected, or -1
RECURSIVE DaBlocks(_, _, _)
RECURSIVE DaAppend(_, _, _, _)
DaAppend(chunks, max_bch, bch_stream, val) ==
    IF val < 0 THEN [stream |-> bch_stream, done |-> TRUE]
    ELSE DaBlocks(Tail(chunks), max_bch,
                  bch_stream \o uint_to_bits(val \div (2 ^ BCH_DA_SYN),
                                             BCH_DA_DATA))

DaBlocks(chunks, max_bch, bch_stream) ==
    IF chunks = <<>> \/ Len(bch_stream) + BCH_DA_DATA > max_bch
    THEN [stream |-> bch_stream, done |-> FALSE]
    ELSE DaAppend(chunks, max_bch, bch_stream,
                  Corrected(BCH_POLY_DA, syn_da, BCH_DA_TABLE,
                            bits_to_uint(Head(chunks), 31)))

\* the four 31-bit chunks of a full block, order = {3, 1, 2, 0}
Chunk(combined, c) == SubSeq(combined, 31 * c + 1, 31 * c + 31)

OrderedChunks(combined) ==
    <<Chunk(combined, 3), Chunk(combined, 1), Chunk(combined, 2),
      Chunk(combined, 0)>>

FullChunks(halves) == OrderedChunks(halves[1] \o halves[2])

\* descramble_payload, "Process full 124-bit blocks", from block blk on; r
\* is what the chunks of block blk leave
RECURSIVE FullBlocks(_, _, _, _, _)
RECURSIVE FullNext(_, _, _, _, _)
FullNext(data, n_full, max_bch, blk, r) ==
    IF r.done THEN r
    ELSE FullBlocks(data, n_full, max_bch, blk + 1, r.stream)

FullBlocks(data, n_full, max_bch, blk, bch_stream) ==
    IF blk >= n_full THEN [stream |-> bch_stream, done |-> FALSE]
    ELSE FullNext(data, n_full, max_bch, blk,
                  DaBlocks(FullChunks(de_interleave_n(
                               SubSeq(data, blk * 124 + 1, blk * 124 + 124),
                               62)),
                           max_bch, bch_stream))

\* h1[i], h2[i] of the last partial block: de_interleave_n writes
\* 2 * (n_sym / 2) elements of each, an element past them holds what the
\* stack held
HalfAt(h, i, junk) == IF i <= Len(h) THEN h[i] ELSE junk

\* the bits of the last partial block, h2 before h1, and its chunks
LastCombined(h, n_sym_last, junk) ==
    [i \in 1 .. (n_sym_last - 1) |-> HalfAt(h[2], i + 1, junk)]
        \o [i \in 1 .. (n_sym_last - 1) |-> HalfAt(h[1], i + 1, junk)]

LastChunks(combined) ==
    [c \in 1 .. (Len(combined) \div 31) |->
        SubSeq(combined, 31 * (c - 1) + 1, 31 * c)]

\* descramble_payload behind the full blocks; junk is the value of a bit
\* read from h1 or h2 unwritten
LastBlock(data, n_full, remain, max_bch, junk, full) ==
    IF full.done THEN full.stream
    ELSE IF ~(remain >= 4
                /\ Len(full.stream) + 2 * (remain \div 2 - 1) <= max_bch)
    THEN full.stream
    ELSE IF ~(remain \div 2 > 1
                /\ Len(full.stream) + BCH_DA_DATA <= max_bch)
    THEN full.stream
    ELSE DaBlocks(LastChunks(LastCombined(
                      de_interleave_n(
                          SubSeq(data, n_full * 124 + 1,
                                 n_full * 124 + 2 * (remain \div 2)),
                          remain \div 2),
                      remain \div 2, junk)),
                  max_bch, full.stream).stream

descramble_payload(data, data_len, max_bch, junk) ==
    LastBlock(data, data_len \div 124, data_len % 124, max_bch, junk,
              FullBlocks(data, data_len \div 124, max_bch, 0, <<>>))

\* crc_ccitt, the eight shifts of one byte, on uint16_t
RECURSIVE CrcShift(_, _)
CrcShift(crc, j) ==
    IF j = 0 THEN crc
    ELSE IF crc >= 32768
    THEN CrcShift(Xor((2 * crc) % 65536, 4129), j - 1)
    ELSE CrcShift((2 * crc) % 65536, j - 1)

\* crc_ccitt from byte i on (poly 0x1021, the caller starts with 0xFFFF);
\* crc is a uint16_t
RECURSIVE crc_ccitt(_, _, _)
crc_ccitt(bytes, i, crc) ==
    IF i > Len(bytes) THEN crc
    ELSE IF crc >= 65536 THEN crc_ccitt(bytes, i, crc % 65536)
    ELSE crc_ccitt(bytes, i + 1, CrcShift(Xor(crc, 256 * bytes[i]), 8))

\* the bytes of crc_buf used: the 20 header bits, 12 zero bits and the bits
\* 20 .. bch_len - 5 of the stream, packed most significant bit first
CrcBytes(bch_stream, bch_len) ==
    LET bits == SubSeq(bch_stream, 1, 20) \o [i \in 1 .. 12 |-> 0]
                    \o SubSeq(bch_stream, 21, bch_len - 4)
        n == (Len(bits) + 7) \div 8
        padded == bits \o [i \in 1 .. (8 * n - Len(bits)) |-> 0]
    IN  [k \in 1 .. n |->
            bits_to_uint(SubSeq(padded, 8 * (k - 1) + 1, 8 * k), 8)]

NoBurst == [ret |-> 0, checked |-> FALSE, is_dl |-> FALSE, is_ul |-> FALSE,
            lcw_tried |-> FALSE, da_ctr |-> 0, da_len |-> 0, cont |-> 0,
            crc_ok |-> 0, payload_len |-> 0, payload |-> <<>>]

\* the CRC of ida_decode over the stream
CrcOk(bch_stream, bch_len, da_len) ==
    IF da_len > 0 /\ bch_len >= 196
           /\ (20 + 12 + (bch_len - 20 - 4)) \div 8 <= 64
           /\ crc_ccitt(CrcBytes(bch_stream, bch_len), 1, 65535) = 0
    THEN 1 ELSE 0

\* burst->payload: the first length of the 20 bytes behind the header
PayloadBytes(bch_stream, length) ==
    SubSeq([i \in 1 .. 20 |->
               bits_to_uint(SubSeq(bch_stream, 8 * i + 13, 8 * i + 20), 8)],
           1, length)

\* the header fields of the stream and the checks on them
IdaHeader(tried, bch_stream, da_len, zero1) ==
    IF zero1 # 0 THEN tried
    ELSE IF da_len > 20 THEN tried
    ELSE [tried EXCEPT
             !.ret = 1,
             !.da_ctr = 4 * bch_stream[6] + 2 * bch_stream[7] + bch_stream[8],
             !.da_len = da_len,
             !.cont = bch_stream[4],
             !.crc_ok = CrcOk(bch_stream, Len(bch_stream), da_len),
             !.payload_len = IF da_len > 0 THEN da_len ELSE 20,
             !.payload = PayloadBytes(bch_stream,
                                      IF da_len > 0 THEN da_len ELSE 20)]

IdaStream(tried, bch_stream) ==
    IF Len(bch_stream) < 196 THEN tried
    ELSE IdaHeader(tried, bch_stream,
                   bits_to_uint(SubSeq(bch_stream, 12, 16), 5),
                   bits_to_uint(SubSeq(bch_stream, 18, 20), 3))

IdaLcw(tried, junk, data, data_len, lcw) ==
    IF lcw.lcw_ok = 0 THEN tried
    ELSE IF lcw.ft # 2 THEN tried
    ELSE IF data_len - 46 < 124 THEN tried
    ELSE IdaStream(tried,
                   descramble_payload(SubSeq(data, 47, data_len),
                                      data_len - 46, 512, junk))

IdaData(seen, accepted, junk, data, data_len) ==
    IF ~accepted THEN seen
    ELSE IdaLcw([seen EXCEPT !.lcw_tried = TRUE], junk, data, data_len,
                decode_lcw(data, data_len))

IdaAccess(frame, junk, is_dl, is_ul) ==
    IdaData([NoBurst EXCEPT !.checked = TRUE, !.is_dl = is_dl,
                            !.is_ul = is_ul],
            is_dl \/ is_ul, junk,
            SubSeq(frame.bits, 25, frame.n_bits), frame.n_bits - 24)

\* ida_decode: the return value and the burst, without the fields copied
\* from the frame (timestamp, frequency, direction, magnitude), and of the
\* locals the outcome of the access check and whether decode_lcw was called
ida_decode(frame, junk) ==
    IF frame.n_bits < 24 + 46 + 124 THEN NoBurst
    ELSE IdaAccess(frame, junk, memcmp24(frame.bits, access_dl),
                   memcmp24(frame.bits, access_ul))

(***************************************************************************)
(* The frames given to the two decoders: what a transmitter builds (the    *)
(* inverse of the de-interleavers and of the field extraction), with bits  *)
(* changed on the way.                                                     *)
(***************************************************************************)
Zeros(n) == [i \in 1 .. n |-> 0]
Flip(bits, where) ==
    [i \in 1 .. Len(bits) |-> IF i \in where THEN 1 - bits[i] ELSE bits[i]]

\* the 32 bits of a block of the (31,21) code: the codeword of data with the
\* bits of error changed, then the parity bit of the codeword, changed if
\* parity_flip = 1
RaBlock(data, error, parity_flip) ==
    LET word == Codeword(BCH_POLY_RA, data)
    IN  uint_to_bits(Xor(word, error), 31)
            \o <<(Weight(word) + parity_flip) % 2>>

\* the soft values of a block: low where a bit of error is set
BlockLlr(error) ==
    [k \in 1 .. 32 |-> IF k <= 31 /\ Bit(error, 31 - k) THEN 1 ELSE 9]

\* 3 x 32 values in the order de_interleave3 undoes
Interleave3(o) ==
    [k \in 1 .. 96 |->
        LET s == (k - 1) \div 2
        IN  o[((47 - s) % 3) + 1][2 * ((47 - s) \div 3) + ((k - 1) % 2) + 1]]

\* 2 x 32 values in the order de_interleave undoes
Interleave2(o) ==
    [k \in 1 .. 64 |->
        LET s == (k - 1) \div 2
        IN  o[((31 - s) % 2) + 1][2 * ((31 - s) \div 2) + ((k - 1) % 2) + 1]]

\* a 12-bit signed field as extract_signed12 reads it
Signed12(v) == uint_to_bits(IF v < 0 THEN v + 4096 ELSE v, 12)

\* the 63 data bits of an IRA header
IraHeader(sat_id, beam_id, xyz) ==
    uint_to_bits(sat_id, 7) \o uint_to_bits(beam_id, 6) \o Signed12(xyz[1])
        \o Signed12(xyz[2]) \o Signed12(xyz[3]) \o Zeros(14)

DataWord(bits, k) == bits_to_uint(SubSeq(bits, 21 * k - 20, 21 * k), 21)

\* the 96 bits of an IRA header on the air, error[k] and flip[k] changing
\* block k
IraBits(xyz, error, flip) ==
    LET hdr == IraHeader(77, 31, xyz)
    IN  Interleave3([k \in 1 .. 3 |->
                        RaBlock(DataWord(hdr, k), error[k], flip[k])])
IraLlr(error) == Interleave3([k \in 1 .. 3 |-> BlockLlr(error[k])])

\* 64 bits on the air of two blocks of 21 data bits each
PairBits(data1, data2, error, flip) ==
    Interleave2(<<RaBlock(data1, error[1], flip[1]),
                  RaBlock(data2, error[2], flip[2])>>)
PairLlr(error) == Interleave2(<<BlockLlr(error[1]), BlockLlr(error[2])>>)

\* the six header bits of an IBC frame: the codeword of the (7,3) code of
\* the type, which has its top bit clear for the types below 4
IbcHeader(bc_type) == uint_to_bits(Codeword(BCH_POLY_HDR, bc_type), 6)

\* the 46 bits on the air of a link control word of frame type ft, the
\* other two parts zero
LcwBits(ft) ==
    LET lcw_bits == uint_to_bits(Codeword(BCH_POLY_LCW1, ft), 7) \o Zeros(39)
        swapped == [m \in 1 .. 46 |->
                       lcw_bits[CHOOSE k \in 1 .. 46 : lcw_perm[k] = m]]
    IN  [k \in 1 .. 46 |-> IF k % 2 = 1 THEN swapped[k + 1] ELSE swapped[k - 1]]

FrameOf(bits, llr) == [bits |-> bits, n_bits |-> Len(bits), llr |-> llr]

NoError == <<0, 0, 0>>
OnBlock(k, e) == [NoError EXCEPT ![k] = e]

\* error patterns of a block: one bit, two bits, three bits of a syndrome
\* not in the table, three bits of a syndrome in the table
BlockErrors == {2 ^ 7, 2 ^ 30 + 1, 2 ^ 3 + 2 ^ 4 + 2 ^ 5, 2 ^ 3 + 2 ^ 4 + 2 ^ 6}

XyzSet == {<<0, 0, 0>>, <<1, 0, 0>>, <<1, 1, 0>>, <<-1, -1, -1>>,
           <<1200, -900, 950>>, <<-1595, 30, -800>>, <<2047, -2048, 2047>>,
           <<-400, 1700, 222>>, <<7, -1790, 4>>, <<1024, 1024, -1024>>}
Xyz0 == <<1200, -900, 950>>

AccessVariants ==
    {access_dl, access_ul, Flip(access_dl, {1}), Flip(access_dl, {24}),
     Flip(access_ul, {12}), Flip(access_dl, {3, 4}), Zeros(24)}

\* the payload of an IDA frame whose stream is all zero: the link control
\* word and n zero bits
IdaBits(ft, n) == LcwBits(ft) \o Zeros(n)

FdFrames ==
    \* every access code in front of three payloads
    {FrameOf(a \o p, <<>>) :
        a \in AccessVariants,
        p \in {Zeros(96), IraBits(Xyz0, NoError, NoError), IdaBits(2, 312)}}
    \* frames cut short
    \cup {FrameOf(SubSeq(access_dl \o IraBits(Xyz0, NoError, NoError), 1, n),
                  <<>>) : n \in {0, 23, 24, 93, 119}}
    \* IRA headers of several positions, both directions
    \cup {FrameOf(a \o IraBits(xyz, NoError, NoError), <<>>) :
             a \in {access_dl, access_ul}, xyz \in XyzSet}
    \* one block of an IRA header in error, without and with soft values
    \cup {FrameOf(access_dl \o IraBits(Xyz0, OnBlock(k, e), NoError), <<>>) :
             k \in 1 .. 3, e \in BlockErrors}
    \cup {FrameOf(access_dl \o IraBits(Xyz0, OnBlock(k, e), NoError),
                  Zeros(24) \o IraLlr(OnBlock(k, e))) :
             k \in 1 .. 3, e \in BlockErrors}
    \* the parity bit of a block changed, alone and with three bit errors
    \cup {FrameOf(access_dl \o IraBits(Xyz0, OnBlock(k, e), OnBlock(k, 1)),
                  <<>>) : k \in 1 .. 3, e \in {0, 2 ^ 3 + 2 ^ 4 + 2 ^ 6}}
    \* an IRA header with one and two pairs of paging blocks behind it
    \cup {FrameOf(access_dl \o IraBits(Xyz0, NoError, NoError)
                      \o PairBits(699050, 1398101, <<e, 0>>, <<0, 0>>)
                      \o PairBits(2 ^ 21 - 1, 2 ^ 21 - 1, <<0, 0>>, <<0, f>>),
                  llr) :
             e \in {0, 2 ^ 7, 56}, f \in {0, 1}, llr \in {<<>>}}
    \cup {FrameOf(access_dl \o IraBits(Xyz0, NoError, NoError)
                      \o PairBits(699050, 1398101, <<56, 0>>, <<0, 0>>),
                  Zeros(24 + 96) \o PairLlr(<<56, 0>>))}
    \* IBC frames: the header, in error or not, and pairs of blocks
    \cup {FrameOf(a \o Flip(IbcHeader(t), h)
                      \o PairBits(1267338, 32768, <<e, 0>>, <<0, 0>>)
                      \o PairBits(1048576 + 4660, 5, <<0, 0>>, <<0, 0>>)
                      \o Zeros(tail),
                  <<>>) :
             a \in {access_dl}, t \in {0, 1, 3}, h \in {{}, {2}},
             e \in {0, 2 ^ 30 + 1}, tail \in {0, 26}}
    \* IBC frames with a block that cannot be corrected: in the first pair,
    \* and in the third of four pairs, by bit errors and by the parity bit
    \cup {FrameOf(access_dl \o IbcHeader(1)
                      \o PairBits(1267338, 32768, <<56, 0>>, <<0, 0>>)
                      \o PairBits(1048576 + 4660, 5, <<0, 0>>, <<0, 0>>),
                  <<>>)}
    \cup {FrameOf(access_dl \o IbcHeader(1)
                      \o PairBits(1267338, 32768, <<0, 0>>, <<0, 0>>)
                      \o PairBits(1048576 + 4660, 5, <<0, 0>>, <<0, 0>>)
                      \o PairBits(699050, 1398101, error, flip)
                      \o PairBits(4660, 22136, <<0, 0>>, <<0, 0>>),
                  <<>>) :
             error \in {<<0, 0>>, <<0, 56>>}, flip \in {<<0, 0>>, <<1, 0>>}}
    \* IDA frames: other frame types, short payloads, bits in error
    \cup {FrameOf(access_ul \o IdaBits(ft, n), <<>>) :
             ft \in {0, 2, 7}, n \in {124, 311, 312, 314}}
    \cup {FrameOf(Flip(access_ul \o IdaBits(2, 312), where), <<>>) :
             where \in {{30}, {100}, {100, 140}, {100, 102, 104}, {350, 360}}}

FdPending == [ret |-> -1]

FdParked ==
    /\ dec_frame = FrameOf(<<>>, <<>>)
    /\ fd_out = FdPending
    /\ ida_out = FdPending

FdStart ==
    /\ dec_frame \in FdFrames
    /\ fd_out = FdPending
    /\ ida_out = FdPending

\* frame_consumer_thread with web_enabled: frame_decode(demod, &decoded)
FrameDecode ==
    /\ fd_out = FdPending
    /\ fd_out' = frame_decode(dec_frame)
    /\ UNCHANGED <<dec_frame, ida_out>>
    /\ UNCHANGED OutsideFd

\* frame_consumer_thread with gsmtap_enabled: ida_decode(demod, &burst)
IdaDecode ==
    /\ ida_out = FdPending
    /\ \E junk \in {0, 1} : ida_out' = ida_decode(dec_frame, junk)
    /\ UNCHANGED <<dec_frame, fd_out>>
    /\ UNCHANGED OutsideFd

NextFd == FrameDecode \/ IdaDecode

(***************************************************************************)
(* qpsk_demod.c: the hard unique-word check on its own.  The symbols are   *)
(* the hard decisions of demod_qpsk, 0 .. 3; the sequences below are both  *)
(* unique words with up to MaxChanged symbols replaced, a frame cut short  *)
(* of the unique word, and a frame with symbols behind it.                 *)
(***************************************************************************)
MaxChanged == 2

UwPending == -1

Change(word, i, v) == [word EXCEPT ![i] = v]

OneChanged(words) ==
    UNION {{Change(word, i, v) : i \in 1 .. Len(word), v \in 0 .. 3} :
           word \in words}

RECURSIVE Changed(_, _)
Changed(words, k) ==
    IF k = 0 THEN words ELSE Changed(OneChanged(words), k - 1)

UwSymbols ==
    LET near == Changed({IR_UW_DL, IR_UW_UL}, MaxChanged)
        few == Changed({IR_UW_DL, IR_UW_UL}, 1)
    IN  near \cup {SubSeq(word, 1, IR_UW_LENGTH - 1) : word \in few}
             \cup {word \o <<1, 3>> : word \in few}
             \cup {<<>>}

UwParked ==
    /\ uw_symbols = <<>>
    /\ uw_dl_ok = UwPending
    /\ uw_ul_ok = UwPending

UwStart ==
    /\ uw_symbols \in UwSymbols
    /\ uw_dl_ok = UwPending
    /\ uw_ul_ok = UwPending

\* qpsk_demod: dl_ok and ul_ok of the hard-decision symbols
CheckSyncWord ==
    /\ uw_dl_ok = UwPending
    /\ uw_dl_ok' = IF check_sync_word(uw_symbols, Len(uw_symbols),
                                      "DIR_DOWNLINK") THEN 1 ELSE 0
    /\ uw_ul_ok' = IF check_sync_word(uw_symbols, Len(uw_symbols),
                                      "DIR_UPLINK") THEN 1 ELSE 0
    /\ UNCHANGED uw_symbols
    /\ UNCHANGED OutsideUw

NextUw == CheckSyncWord

(***************************************************************************)
(* The FFT planner calls of the detector thread and of the downmix         *)
(* workers.  A thread's position names the call it is in or the point it   *)
(* waits at:                                                               *)
(*   detector: det_create (before fftw_lock of burst_detector_create),     *)
(*     det_plan (in fftwf_plan_dft_1d), det_take (the loop on              *)
(*     samples_queue), det_destroy_plan (in fftwf_destroy_plan of          *)
(*     burst_detector_destroy);                                            *)
(*   worker: wk_create, wk_plans (the four plans of burst_downmix_create), *)
(*     dl_sync / dl_plan / dl_execute / dl_executed / dl_destroy and the   *)
(*     same for ul (the two calls of generate_sync_word), wk_take (the     *)
(*     loop on burst_queue), wk_destroy, wk_destroy_plans                  *)
(*     (burst_downmix_destroy).                                            *)
(***************************************************************************)
NUM_DOWNMIX_WORKERS == 4

Detector == 0
DownmixWorkers == 1 .. NUM_DOWNMIX_WORKERS
PlanThreads == {Detector} \cup DownmixWorkers
NoThread == -1

\* fftw_lock() at a position leads into the planner call behind it
LockedCall(pc) ==
    CASE pc = "det_create" -> "det_plan"
      [] pc = "wk_create" -> "wk_plans"
      [] pc = "dl_sync" -> "dl_plan"
      [] pc = "dl_executed" -> "dl_destroy"
      [] pc = "ul_sync" -> "ul_plan"
      [] pc = "ul_executed" -> "ul_destroy"
      [] pc = "wk_destroy" -> "wk_destroy_plans"
      [] OTHER -> "none"

\* fftw_unlock() behind a planner call leads to the next position
AfterUnlock(pc) ==
    CASE pc = "det_plan" -> "det_take"
      [] pc = "wk_plans" -> "dl_sync"
      [] pc = "dl_plan" -> "dl_execute"
      [] pc = "dl_destroy" -> "ul_sync"
      [] pc = "ul_plan" -> "ul_execute"
      [] pc = "ul_destroy" -> "wk_take"
      [] pc = "wk_destroy_plans" -> "exited"
      [] OTHER -> "none"

\* the thread is inside fftwf_plan_dft_1d or fftwf_destroy_plan
InPlanner(t) ==
    plan_pc[t] \in {"det_plan", "det_destroy_plan", "wk_plans", "dl_plan",
                    "dl_destroy", "ul_plan", "ul_destroy", "wk_destroy_plans"}

PlanParked ==
    /\ plan_main = "done"
    /\ plan_pc = [t \in PlanThreads |-> "exited"]
    /\ fftw_planner_mutex = NoThread

\* main() behind fftw_lock_init and blocking_queue_init
PlanStart ==
    /\ plan_main = "create_detector"
    /\ plan_pc = [t \in PlanThreads |-> "unborn"]
    /\ fftw_planner_mutex = NoThread

\* pthread_create(&detector, ...)
PlanCreateDetector ==
    /\ plan_main = "create_detector"
    /\ plan_pc' = [plan_pc EXCEPT ![Detector] = "det_create"]
    /\ plan_main' = "create_workers"
    /\ UNCHANGED fftw_planner_mutex
    /\ UNCHANGED OutsidePlan

\* pthread_create(&downmix_workers[i], ...), i ascending; behind the last
\* one main starts the source and waits for the signal
PlanCreateWorker ==
    /\ plan_main = "create_workers"
    /\ \E w \in DownmixWorkers :
        /\ plan_pc[w] = "unborn"
        /\ \A v \in DownmixWorkers : v < w => plan_pc[v] # "unborn"
        /\ plan_pc' = [plan_pc EXCEPT ![w] = "wk_create"]
        /\ plan_main' = IF w = NUM_DOWNMIX_WORKERS THEN "wait"
                        ELSE "create_workers"
    /\ UNCHANGED fftw_planner_mutex
    /\ UNCHANGED OutsidePlan

\* running becomes 0 (signal or end of input): main leaves the wait loop
\* and closes samples_queue
PlanCloseSamples ==
    /\ plan_main = "wait"
    /\ plan_main' = "join_detector"
    /\ UNCHANGED <<plan_pc, fftw_planner_mutex>>
    /\ UNCHANGED OutsidePlan

\* pthread_join(detector) returns, the burst queue drains, main closes it
PlanCloseBurst ==
    /\ plan_main = "join_detector"
    /\ plan_pc[Detector] = "exited"
    /\ plan_main' = "join_workers"
    /\ UNCHANGED <<plan_pc, fftw_planner_mutex>>
    /\ UNCHANGED OutsidePlan

\* pthread_join of every worker
PlanJoinWorkers ==
    /\ plan_main = "join_workers"
    /\ \A w \in DownmixWorkers : plan_pc[w] = "exited"
    /\ plan_main' = "done"
    /\ UNCHANGED <<plan_pc, fftw_planner_mutex>>
    /\ UNCHANGED OutsidePlan

\* fftw_lock(): pthread_mutex_lock returns once the mutex is free
fftw_lock ==
    \E t \in PlanThreads :
        /\ LockedCall(plan_pc[t]) # "none"
        /\ fftw_planner_mutex = NoThread
        /\ fftw_planner_mutex' = t
        /\ plan_pc' = [plan_pc EXCEPT ![t] = LockedCall(plan_pc[t])]
        /\ UNCHANGED plan_main
        /\ UNCHANGED OutsidePlan

\* the planner call returns and fftw_unlock() releases the mutex
fftw_unlock ==
    \E t \in PlanThreads :
        /\ AfterUnlock(plan_pc[t]) # "none"
        /\ fftw_planner_mutex' = NoThread
        /\ plan_pc' = [plan_pc EXCEPT ![t] = AfterUnlock(plan_pc[t])]
        /\ UNCHANGED plan_main
        /\ UNCHANGED OutsidePlan

\* generate_sync_word: fftwf_execute(plan) between the two locked sections
SyncExecute ==
    \E w \in DownmixWorkers :
        /\ plan_pc[w] \in {"dl_execute", "ul_execute"}
        /\ plan_pc' = [plan_pc EXCEPT
                          ![w] = IF plan_pc[w] = "dl_execute"
                                 THEN "dl_executed" ELSE "ul_executed"]
        /\ UNCHANGED <<plan_main, fftw_planner_mutex>>
        /\ UNCHANGED OutsidePlan

\* burst_detector_thread: blocking_queue_take fails on the closed
\* samples_queue, the loop ends and burst_detector_destroy calls
\* fftwf_destroy_plan
DetectorDestroy ==
    /\ plan_pc[Detector] = "det_take"
    /\ plan_main \in {"join_detector", "join_workers", "done"}
    /\ plan_pc' = [plan_pc EXCEPT ![Detector] = "det_destroy_plan"]
    /\ UNCHANGED <<plan_main, fftw_planner_mutex>>
    /\ UNCHANGED OutsidePlan

\* fftwf_destroy_plan returns; the thread frees its buffers and ends
DetectorExit ==
    /\ plan_pc[Detector] = "det_destroy_plan"
    /\ plan_pc' = [plan_pc EXCEPT ![Detector] = "exited"]
    /\ UNCHANGED <<plan_main, fftw_planner_mutex>>
    /\ UNCHANGED OutsidePlan

\* burst_downmix_thread: blocking_queue_take fails on the closed
\* burst_queue, the loop ends and burst_downmix_destroy begins
WorkerLeave ==
    \E w \in DownmixWorkers :
        /\ plan_pc[w] = "wk_take"
        /\ plan_main \in {"join_workers", "done"}
        /\ plan_pc' = [plan_pc EXCEPT ![w] = "wk_destroy"]
        /\ UNCHANGED <<plan_main, fftw_planner_mutex>>
        /\ UNCHANGED OutsidePlan

NextPlan ==
    \/ PlanCreateDetector
    \/ PlanCreateWorker
    \/ PlanCloseSamples
    \/ PlanCloseBurst
    \/ PlanJoinWorkers
    \/ fftw_lock
    \/ fftw_unlock
    \/ SyncExecute
    \/ DetectorDestroy
    \/ DetectorExit
    \/ WorkerLeave

(***************************************************************************)
(* gf2_remainder on the whole range of uint32_t.  A word that may have bit *)
(* 31 set is a record of that bit (top) and of the 31 bits below it (low). *)
(***************************************************************************)
\* the generator polynomials of frame_decode.c and of ida_decode.c
GfPolys == {BCH_POLY_RA, BCH_POLY_HDR, BCH_POLY_DA,
            BCH_POLY_LCW1, BCH_POLY_LCW2, BCH_POLY_LCW3}

GfPending == -1

\* v << k on uint32_t for 0 <= k <= 31: the bits shifted beyond bit 31 are
\* lost
ShiftLeft32(v, k) ==
    IF k = 0 THEN [top |-> 0, low |-> v]
    ELSE IF k = 31 THEN [top |-> v % 2, low |-> 0]
    ELSE [top |-> (v \div (2 ^ (31 - k))) % 2,
          low |-> (v % (2 ^ (31 - k))) * (2 ^ k)]

\* gf2_remainder of a word with bit 31: the step i = 31 of the loop clears
\* the bit with poly << (32 - poly_bits), whose top bit is bit 31
gf2_remainder32(poly, val) ==
    IF val.top = 0 THEN gf2_remainder(poly, val.low)
    ELSE gf2_loop(poly, BitLength(poly),
                  Xor(val.low, ShiftLeft32(poly, 32 - BitLength(poly)).low),
                  30, BitLength(poly) - 1)

GfParked == gf_poly = 0 /\ gf_shift = 0 /\ gf_rem = GfPending

\* the shift counts of a uint32_t: a shift by 32 or more is undefined
GfStart ==
    /\ gf_poly \in GfPolys
    /\ gf_shift \in 0 .. 31
    /\ gf_rem = GfPending

Gf2Remainder ==
    /\ gf_rem = GfPending
    /\ gf_rem' = gf2_remainder32(gf_poly, ShiftLeft32(gf_poly, gf_shift))
    /\ UNCHANGED <<gf_poly, gf_shift>>
    /\ UNCHANGED OutsideGf

NextGf == Gf2Remainder

(***************************************************************************)
(* The detector with max_bursts one above the scaled-down default, as      *)
(* burst_detector_create takes it from the configuration: with the bins of *)
(* this model the squelch then never triggers and two bursts stay active   *)
(* side by side.                                                           *)
(***************************************************************************)
WideParked == det_max_bursts = max_bursts
WideStart == det_max_bursts = max_bursts + 1
NextWide == NextDet

(***************************************************************************)
(* decode_dqpsk alone, on every symbol sequence up to MaxSymbols long.     *)
(***************************************************************************)
MaxSymbols == 4
DqPending == <<-1>>

RECURSIVE SymbolSeqs(_)
SymbolSeqs(n) ==
    IF n = 0 THEN {<<>>}
    ELSE {Append(w, c) : w \in SymbolSeqs(n - 1), c \in 0 .. 3}

DqParked == dq_in = <<>> /\ dq_out = DqPending

DqStart ==
    /\ dq_in \in UNION {SymbolSeqs(n) : n \in 0 .. MaxSymbols}
    /\ dq_out = DqPending

DecodeDqpsk ==
    /\ dq_out = DqPending
    /\ dq_out' = decode_dqpsk(dq_in)
    /\ UNCHANGED dq_in
    /\ UNCHANGED OutsideDq

NextDq == DecodeDqpsk

(***************************************************************************)
(* Step 1 of qpsk_demod: the decimation to one sample per symbol.  The     *)
(* positions and the loop filter of decimate_gardner are floats; they are  *)
(* counted here in steps of 1 / PosUnit of a sample, which holds the two   *)
(* gains and the errors fed exactly.  The error of a symbol is what the    *)
(* samples make it; a frame is given by its length and by the (clamped)    *)
(* error its samples yield.                                                *)
(***************************************************************************)
PosUnit == 10000
IR_DEFAULT_SPS == 10
IR_MIN_FRAME_LENGTH_NORMAL == 131
ExtraSamples == 9

GARDNER_KP == (2 * PosUnit) \div 100        \* 0.02f
GARDNER_KI == (2 * PosUnit) \div 10000      \* 0.0002f

\* dm->samples_per_symbol of burst_downmix_create, config = { 0 }
samples_per_symbol == IR_DEFAULT_SPS * PosUnit

\* the frame lengths burst_downmix extracts, from the shortest on
min_frame_len == (IR_MIN_FRAME_LENGTH_NORMAL * samples_per_symbol) \div PosUnit
FrameSamples == min_frame_len .. (min_frame_len + ExtraSamples)

\* the errors after the clamp to [-1, 1]
GardnerErrors == {-PosUnit, -(PosUnit \div 2), 0, PosUnit \div 2, PosUnit}

\* qpsk_demod: sps and the capacity of decimated, pll_out and symbols
RoundedSps ==
    LET sps == (samples_per_symbol + PosUnit \div 2) \div PosUnit
    IN  IF sps < 1 THEN 1 ELSE sps

max_symbols(num_samples) == num_samples \div RoundedSps + 1

Clamp(x, lo, hi) == IF x > hi THEN hi ELSE IF x < lo THEN lo ELSE x

\* gain * error, both in steps of 1 / PosUnit
Times(gain, error) == (gain * error) \div PosUnit

\* one iteration of the loop of decimate_gardner on a symbol whose error is
\* error: out[n] is written, then the loop filter moves pos
decimate_gardner(n, pos, timing_offset, error) ==
    LET mid_pos == pos - samples_per_symbol \div 2
        tracked == n > 0 /\ mid_pos >= PosUnit
        offset == IF tracked THEN timing_offset + Times(GARDNER_KI, error)
                  ELSE timing_offset
        adjust == Clamp(Times(GARDNER_KP, error) + offset,
                        -(PosUnit \div 2), PosUnit \div 2)
    IN  [n |-> n + 1, timing_offset |-> offset,
         pos |-> (IF tracked THEN pos + adjust ELSE pos) + samples_per_symbol]

\* one iteration of the loop of decimate_simple: out[n++] = in[i],
\* i += (int)sps
decimate_simple(n, i) ==
    [n |-> n + 1, pos |-> i + samples_per_symbol \div PosUnit]

TdParked ==
    /\ td_samples = 0
    /\ td_gardner = FALSE
    /\ td_error = 0
    /\ td_pc = "idle"
    /\ td_pos = 0
    /\ td_offset = 0
    /\ td_n = 0

\* entry of qpsk_demod with the three arrays allocated
TdStart ==
    /\ td_samples \in FrameSamples
    /\ td_gardner \in BOOLEAN
    /\ td_error \in (IF td_gardner THEN GardnerErrors ELSE {0})
    /\ td_pc = (IF td_gardner THEN "gardner" ELSE "simple")
    /\ td_pos = 0
    /\ td_offset = 0
    /\ td_n = 0

GardnerStep ==
    /\ td_pc = "gardner"
    /\ td_pos < (td_samples - 3) * PosUnit
    /\ \E r \in {decimate_gardner(td_n, td_pos, td_offset, td_error)} :
        /\ td_n' = r.n
        /\ td_pos' = r.pos
        /\ td_offset' = r.timing_offset
    /\ UNCHANGED <<td_samples, td_gardner, td_error, td_pc>>
    /\ UNCHANGED OutsideTd

SimpleStep ==
    /\ td_pc = "simple"
    /\ td_pos < td_samples
    /\ \E r \in {decimate_simple(td_n, td_pos)} :
        /\ td_n' = r.n
        /\ td_pos' = r.pos
    /\ UNCHANGED <<td_samples, td_gardner, td_error, td_pc, td_offset>>
    /\ UNCHANGED OutsideTd

\* the loop ends: n_symbols = n
DecimateReturn ==
    /\ \/ td_pc = "gardner" /\ ~(td_pos < (td_samples - 3) * PosUnit)
       \/ td_pc = "simple" /\ ~(td_pos < td_samples)
    /\ td_pc' = "done"
    /\ UNCHANGED <<td_samples, td_gardner, td_error, td_pos, td_offset, td_n>>
    /\ UNCHANGED OutsideTd

NextTd == GardnerStep \/ SimpleStep \/ DecimateReturn

DecParked ==
    /\ IdaParked /\ QpskParked /\ BchParked /\ FdParked
    /\ UwParked /\ PlanParked /\ GfParked /\ WideParked
    /\ DqParked
    /\ TdParked

Init == DetInit /\ PipeInit /\ DecParked

\* detector and threads at rest, for the specifications of the decoders
Base == DetInit /\ PipeInit /\ ~live

\* the IDA reassembly alone
Rest == UwParked /\ PlanParked /\ GfParked /\ WideParked
    /\ DqParked /\ TdParked

InitIda == Base /\ IdaStart /\ QpskParked /\ BchParked /\ FdParked /\ Rest
SpecIda == InitIda /\ [][NextIda]_vars

\* the IDA reassembly of one long message delivered in order
InitLong == Base /\ IdaLongStart /\ QpskParked /\ BchParked /\ FdParked /\ Rest
SpecLong == InitLong /\ [][NextLong]_vars

\* the demodulator alone
InitQpsk == Base /\ IdaParked /\ QpskStart /\ BchParked /\ FdParked /\ Rest

\* the table lookup of the BCH(31,21) code alone
InitBch == Base /\ IdaParked /\ QpskParked /\ BchStart /\ FdParked /\ Rest
SpecBch == InitBch /\ [][NextBch]_vars

\* frame_decode and ida_decode alone, each on a demodulated frame
InitFd == Base /\ IdaParked /\ QpskParked /\ BchParked /\ FdStart /\ Rest
SpecFd == InitFd /\ [][NextFd]_vars

\* check_sync_word alone, on symbol sequences around both unique words
Quiet == Base /\ IdaParked /\ QpskParked /\ BchParked /\ FdParked

InitUw == Quiet /\ UwStart /\ PlanParked /\ GfParked
    /\ WideParked /\ DqParked /\ TdParked
SpecUw == InitUw /\ [][NextUw]_vars

\* the threads that create and destroy FFT plans
InitPlan == Quiet /\ UwParked /\ PlanStart /\ GfParked
    /\ WideParked /\ DqParked /\ TdParked
SpecPlan == InitPlan /\ [][NextPlan]_vars

\* gf2_remainder alone, on the shifted generator polynomials
InitGf == Quiet /\ UwParked /\ PlanParked /\ GfStart
    /\ WideParked /\ DqParked /\ TdParked
SpecGf == InitGf /\ [][NextGf]_vars

\* the detector alone, with room for two bursts
InitWide == Quiet /\ UwParked /\ PlanParked /\ GfParked
    /\ WideStart /\ DqParked /\ TdParked
SpecWide == InitWide /\ [][NextWide]_vars

\* decode_dqpsk alone, on all short symbol sequences
InitDq == Quiet /\ UwParked /\ PlanParked /\ GfParked
    /\ WideParked /\ DqStart /\ TdParked
SpecDq == InitDq /\ [][NextDq]_vars

\* the decimation step of qpsk_demod alone
InitTd == Quiet /\ UwParked /\ PlanParked /\ GfParked
    /\ WideParked /\ DqParked /\ TdStart
SpecTd == InitTd /\ [][NextTd]_vars

SpecQpsk == InitQpsk /\ [][NextQpsk]_vars


\* the detector alone, the threads parked
InitDet == Init /\ ~live
SpecDet == InitDet /\ [][NextDet]_vars

\* the threads and queues of a run on a receiver, the detector object
\* untouched
InitPipe == Init /\ live
SpecPipe == InitPipe /\ [][NextPipe]_vars

\* the threads and queues of a run on an input file
InitFile == Init /\ ~live
SpecFile == InitFile /\ [][NextFile]_vars


(***************************************************************************)
(* Properties of the detector.                                             *)
(***************************************************************************)
\* exact sum of column bin of the history ring
RECURSIVE ColSum(_, _)
ColSum(bin, r) ==
    IF r = history_size THEN 0 ELSE baseline_history[r][bin] + ColSum(bin, r + 1)

\* the same sum accumulated in binary32, row by row
RECURSIVE ColSumF(_, _, _)
ColSumF(bin, r, acc) ==
    IF r = history_size THEN acc
    ELSE ColSumF(bin, r + 1, FAdd(acc, baseline_history[r][bin]))

\* absolute index of the oldest sample the ring buffer still holds
RingOldest == Max(0, sample_count - ringbuf_size)

EmittedSet == {emitted[i] : i \in 1 .. Len(emitted)}

\* C1: after every FFT frame baseline_sum[bin] equals the sum over all rows
\* of baseline_history[row][bin] (read as the exact sum or as the sum
\* accumulated in single precision, whichever is more favourable).
CexC1 ==
    \A bin \in Bins :
        \/ baseline_sum[bin] = ColSum(bin, 0)
        \/ baseline_sum[bin] = ColSumF(bin, 0, 0)

\* C2: every burst handed to the emission callback has
\* start <= last_active <= stop, and its start is not older than the oldest
\* sample the ring buffer holds when it is emitted.
ThmC2 ==
    \A bd \in EmittedSet :
        /\ bd.info.start <= bd.info.last_active
        /\ bd.info.last_active <= bd.info.stop
        /\ bd.info.start >= 0
        /\ bd.info.start >= RingOldest

WitC2 ==
    \E bd \in EmittedSet :
        /\ RingOldest > 0
        /\ bd.info.start < bd.info.last_active
        /\ bd.info.last_active < bd.info.stop

\* C3: every sample copied into an emitted burst has an absolute index at or
\* after the oldest sample not yet overwritten and strictly before the number
\* of samples written so far.
CexC3 ==
    \A bd \in EmittedSet : \A i \in 1 .. bd.num_samples :
        LET a == extract_from(bd.info.start) + i - 1
        IN  RingOldest <= a /\ a < sample_count

\* C4 as stated: when the squelch counter has reached 10 in a frame, the next
\* frame begins with the primed flag false and an all-zero running sum.
CexC4 ==
    frame_log.reached >= 10 => (~history_primed /\ baseline_sum = ZeroRow)

\* C4 as amended: when the squelch counter has reached 10 in a frame, the
\* next frame begins with the counter back at 0, the primed flag false and a
\* baseline that holds exactly the magnitudes of the squelched frame: one
\* history row written, all other rows zero, the running sum equal to that
\* row (history_size >= 2).
ThmC4 ==
    frame_log.reached >= 10 =>
        /\ squelch_count = 0
        /\ ~history_primed
        /\ history_index = 1
        /\ \A r \in Rows \ {0} : baseline_history[r] = ZeroRow
        /\ baseline_sum = baseline_history[0]
        /\ bursts = <<>>

WitC4 ==
    /\ frame_log.reached >= 10
    /\ ~history_primed
    /\ baseline_sum # ZeroRow

\* C5 as stated: a burst whose length last_active - start is exactly
\* max_burst_len is retired by the length rule.
CexC5 ==
    \A r \in frame_log.retired :
        r.last_active - r.start = max_burst_len => r.why = "length"

\* C5 as amended: the length rule retires a burst only when its length
\* exceeds max_burst_len; a burst of exactly max_burst_len is never retired
\* by the length rule and forces no baseline update: it stays active until
\* the silence rule (or a squelch) retires it.
ThmC5 ==
    /\ \A r \in frame_log.retired :
        /\ r.why = "length" <=> r.last_active - r.start > max_burst_len
        /\ r.last_active - r.start = max_burst_len
              => r.why \in {"silence", "squelch"}
    /\ frame_log.forced <=>
          \E r \in frame_log.retired : r.last_active - r.start > max_burst_len

WitC5 ==
    \E r \in frame_log.retired :
        r.last_active - r.start = max_burst_len /\ r.why = "silence"

\* the baseline: history rows, running sum, history cursor, primed flag
Baseline ==
    <<baseline_history, baseline_sum, history_index, history_primed>>

\* C23: within one FFT frame the baseline (history rows, running sum,
\* history cursor, primed flag) is modified only if no burst is active at
\* the end of the frame or a length-triggered retirement forced the update
\* in that frame; in every other frame the baseline is left unchanged.
ThmC23 ==
    [][Baseline' # Baseline => (bursts' = <<>> \/ frame_log'.forced)]_vars

\* a frame has retired a burst by the length rule, which forced the update
\* of the baseline, and has created a burst that is active at its end
WitC23 ==
    /\ frame_log.forced
    /\ bursts # <<>>
    /\ index > 0

\* a step that processes one FFT frame
FrameStep == index' # index

\* C24, as stated: in a frame where the active-burst count after creating
\* new bursts exceeds max_bursts the squelch counter increases by 3.
CexC24 ==
    [][(FrameStep /\ frame_log'.squelch) =>
           squelch_count' = squelch_count + 3]_vars

\* C24: in a frame where the active-burst count after creating new bursts
\* exceeds max_bursts, no burst created in that frame is retired for
\* emission, every previously active burst is retired with stop equal to
\* the current index, the active set is empty afterwards, and the squelch
\* counter increases by 3 unless that brings it to 10 or more, in which case
\* it is reset to 0; in every other detection frame the counter decreases by
\* 1 but never below 0, and outside detection it does not change.
ThmC24 ==
    [][FrameStep =>
          IF frame_log'.squelch
          THEN /\ bursts' = <<>>
               /\ squelch_count' = (IF squelch_count + 3 >= 10 THEN 0
                                    ELSE squelch_count + 3)
               /\ burst_id' > burst_id
               /\ \A i \in 1 .. Len(bursts) :
                      \E k \in 1 .. Len(gone_bursts') :
                          /\ gone_bursts'[k].id = bursts[i].id
                          /\ gone_bursts'[k].stop = index
               /\ \A k \in 1 .. Len(gone_bursts') :
                      gone_bursts'[k].id < burst_id
          ELSE IF history_primed
          THEN squelch_count' = Max(squelch_count - 1, 0)
          ELSE squelch_count' = squelch_count]_vars

\* a squelch frame has retired a burst that was active before it and has
\* raised the counter from 3 to 6
WitC24 ==
    /\ frame_log.squelch
    /\ squelch_count = 6
    /\ bursts = <<>>
    /\ \E r \in frame_log.retired :
           r.why = "squelch" /\ r.stop = index - fft_size

\* C27: at every frame boundary, if the baseline is not primed then no
\* burst is active; hence every frame processed on an unprimed baseline
\* updates it: the history cursor, which is below history_size, advances by
\* one row, and the baseline is primed when the cursor wraps, after at most
\* history_size frames.
ThmC27 ==
    [][/\ ~history_primed => (bursts = <<>> /\ history_index < history_size)
       /\ ~history_primed' => bursts' = <<>>
       /\ (FrameStep /\ ~history_primed) =>
              IF history_index + 1 = history_size
              THEN history_primed' /\ history_index' = 0
              ELSE ~history_primed' /\ history_index' = history_index + 1
      ]_vars

\* the baseline is unprimed again after detection has created bursts: the
\* frame that reset it has written the first history row, and no burst is
\* active
WitC27 ==
    /\ ~history_primed
    /\ history_index = 1
    /\ burst_id > 0
    /\ bursts = <<>>

\* the ids of the bursts of a sequence
Ids(bs) == {bs[i].id : i \in 1 .. Len(bs)}
DistinctIds(bs) == Cardinality(Ids(bs)) = Len(bs)

\* ceil((max_burst_len + burst_post_len) / fft_size) + 2
LifeFrames == (max_burst_len + burst_post_len + fft_size - 1) \div fft_size + 2

\* the index of the frame that created burst b
CreatedAt(b) == b.start + burst_pre_len

\* C29: every burst that becomes active leaves the active set within at
\* most ceil((max_burst_len + burst_post_len) / fft_size) + 2 frames of its
\* creation, and every retired burst is passed to the emission callback at
\* most once: a burst is in one place only (active or retired), a retired
\* burst was active before and never becomes active again, and the bursts
\* handed over at the end of a feed are the retired ones, each once, after
\* which the retired list is empty.
ThmC29 ==
    [][/\ \A i \in 1 .. Len(bursts') :
              index' - CreatedAt(bursts'[i]) <= LifeFrames * fft_size
       /\ DistinctIds(bursts' \o gone_bursts')
       /\ Ids(gone_bursts') \subseteq (Ids(gone_bursts) \cup Ids(bursts))
       /\ \A i \in 1 .. Len(bursts') :
              \/ bursts'[i].id \in Ids(bursts)
              \/ bursts'[i].id >= burst_id /\ bursts'[i].id < burst_id'
       /\ emitted' # emitted =>
              /\ \A i \in 1 .. Len(emitted') :
                     emitted'[i].info \in
                         {gone_bursts[k] : k \in 1 .. Len(gone_bursts)}
              /\ Cardinality({emitted'[i].info.id :
                                 i \in 1 .. Len(emitted')}) = Len(emitted')
              /\ gone_bursts' = <<>>
      ]_vars

\* a burst that the length rule retired has been handed to the callback
WitC29 ==
    /\ dpc = "idle"
    /\ \E i \in 1 .. Len(emitted) :
           emitted[i].info.last_active - emitted[i].info.start > max_burst_len
    /\ gone_bursts = <<>>

\* C28: at every frame boundary any two distinct active bursts have center
\* bins that differ by more than burst_width / 2, and the center bin of
\* every active burst lies in [burst_width / 2, fft_size - burst_width / 2).
ThmC28 ==
    /\ \A i, j \in 1 .. Len(bursts) :
           i # j => Abs(bursts[i].center_bin - bursts[j].center_bin)
                        > burst_width \div 2
    /\ \A i \in 1 .. Len(bursts) :
           /\ bursts[i].center_bin >= burst_width \div 2
           /\ bursts[i].center_bin < fft_size - burst_width \div 2

\* two bursts are active at once, the second created in a later frame than
\* the first
WitC28 ==
    /\ Len(bursts) = 2
    /\ bursts[1].start < bursts[2].start
    /\ squelch_count = 0

(***************************************************************************)
(* Properties of decode_dqpsk.                                             *)
(***************************************************************************)
\* the map of the claim, from a phase step to a decoded symbol
DqMap(diff) ==
    CASE diff = 0 -> 0 [] diff = 1 -> 2 [] diff = 2 -> 3 [] diff = 3 -> 1

\* the original symbol before position i, 0 before the first
DqPrev(s, i) == IF i = 1 THEN 0 ELSE s[i - 1]

\* C25: for every symbol sequence s over {0,1,2,3} the in-place decoder
\* leaves out[i] = map[(s[i] - s[i-1]) mod 4] with map {0->0, 1->2, 2->3,
\* 3->1} and s[-1] = 0, s[i-1] being the original previous symbol.
ThmC25 ==
    dq_out # DqPending =>
        /\ Len(dq_out) = Len(dq_in)
        /\ \A i \in 1 .. Len(dq_in) :
               dq_out[i] = DqMap((dq_in[i] - DqPrev(dq_in, i)) % 4)

\* a decoded sequence in which using the decoded previous symbol would give
\* another result
WitC25 ==
    /\ dq_out # DqPending
    /\ Len(dq_in) = MaxSymbols
    /\ \E i \in 2 .. Len(dq_in) :
           /\ dq_out[i - 1] # dq_in[i - 1]
           /\ dq_out[i] # DqMap((dq_in[i] - dq_out[i - 1]) % 4)

(***************************************************************************)
(* Properties of the IDA reassembly of a message delivered in order.       *)
(***************************************************************************)
\* the payloads of the bursts of a message, in the order of arrival
RECURSIVE PayloadsInOrder(_)
PayloadsInOrder(todo) ==
    IF todo = {} THEN <<>>
    ELSE <<Earliest(todo).payload>>
             \o PayloadsInOrder(todo \ {Earliest(todo)})

\* the frames ida_decode accepted
IdaBursts(frames) == {f \in frames : f.ida}

\* C26: a call of ida_reassemble invokes the callback once if it returns 1
\* and not at all if it returns 0, and the data delivered for a multi-burst
\* message is the concatenation, in arrival order, of the payloads of its
\* start burst and of every burst matched after it up to and including the
\* first one with the continuation bit clear.  Here: once all bursts of a
\* message were fed in order, one message was delivered, and its data are
\* the payloads of all its bursts.
CexC26 ==
    (ida_all # {} /\ ida_pending = {}) =>
        /\ Len(ida_msgs) = 1
        /\ ida_msgs[1].data = PayloadsInOrder(IdaBursts(ida_all))

(***************************************************************************)
(* Properties of the decimation step of qpsk_demod.                        *)
(***************************************************************************)
\* C30: the number of symbols the timing recovery (Gardner or simple
\* decimation) writes into its output array never exceeds the capacity
\* allocated for it, max_symbols = num_samples / round(samples_per_symbol)
\* + 1.
CexC30 == td_n <= max_symbols(td_samples)

(***************************************************************************)
(* Properties of the thread pipeline.                                      *)
(***************************************************************************)
\* C6: whenever a producer discards a record because its downstream queue
\* is full (push_samples, a downmix worker adding a frame, the detector
\* handing over a burst), the dropped counter is incremented once: the
\* counter always equals the number of records discarded.
CexC6 == stat_n_dropped = dropped

\* C7: handing a retired burst downstream does not block the detector
\* thread, also when the burst queue is full and no worker takes from it:
\* whenever the detector is at the put of burst_to_queue the put returns.
CexC7 ==
    det_pc = "put" => blocking_queue_put(burst_queue, BurstCap) # "BLOCKED"

\* the threads that enqueue into each queue have all returned
SourceDone == src_pc = "done"
DetectorDone == det_pc = "done"
WorkersDone == \A w \in Workers : wk_pc[w] = "done"

\* C8: shutdown is strictly producer-first: a queue is closed only when it
\* is empty and every thread producing into it has stopped, the threads
\* exit in the order source, detector, downmix pool, frame consumer, and a
\* worker exits only on a failed take from its input queue.
CexC8 ==
    [][ /\ (samples_queue'.closed /\ ~samples_queue.closed)
            => (queue_size(samples_queue) = 0 /\ SourceDone)
        /\ (burst_queue'.closed /\ ~burst_queue.closed)
            => (queue_size(burst_queue) = 0 /\ DetectorDone)
        /\ (frame_queue'.closed /\ ~frame_queue.closed)
            => (queue_size(frame_queue) = 0 /\ WorkersDone)
        /\ (det_pc' = "done" /\ det_pc # "done")
            => (SourceDone /\ samples_queue.closed)
        /\ \A w \in Workers :
            (wk_pc'[w] = "done" /\ wk_pc[w] # "done")
                => (DetectorDone /\ burst_queue.closed)
        /\ (con_pc' = "done" /\ con_pc # "done")
            => (WorkersDone /\ frame_queue.closed)
      ]_vars

\* C9: once running is cleared the process terminates, whatever the
\* interleaving of signal delivery and thread scheduling: as long as main
\* has not returned, some thread of the process can take a step without a
\* further signal from outside.
CexC9 ==
    (~running /\ pending = {}) => (main_pc = "done" \/ ENABLED ProgramStep)

\* C10: every record is released exactly once: no thread frees or reads a
\* record it does not hold, and when main has joined every thread each
\* record that was allocated has been freed.
CexC10 ==
    /\ ~heap_fault
    /\ main_pc = "done" => \A r \in Records : rec[r] \in {"unborn", "freed"}

\* a <= b for two printed relative times; a wrapped one is above every
\* one that is not
ElapsedLeq(a, b) ==
    IF a.wrapped = b.wrapped THEN a.ticks <= b.ticks ELSE b.wrapped

\* C11: the RAW lines are printed with monotone non-decreasing timestamps,
\* for every interleaving of the downmix workers: each printed timestamp
\* is greater than or equal to the one printed before it.
CexC11 ==
    \A i \in 1 .. Len(printed) : \A j \in i .. Len(printed) :
        ElapsedLeq(printed[i].ts_ms, printed[j].ts_ms)

\* C12: the consumers of demod frames do not assume arrival order: for any
\* order in which the frames of the IDA bursts are delivered, the messages
\* emitted are those emitted when the frames arrive in timestamp order.
CexC12 ==
    ida_pending = {} =>
        MessageData(ida_msgs) = MessageData(InTimestampOrder(EmptyCtx, ida_all))

\* C13: every demod frame returned by qpsk_demod is well formed: every
\* symbol fed to the DQPSK stage is in 0..3, every output bit is 0 or 1,
\* n_bits = 2 * n_symbols, n_symbols >= 12 (n_payload_symbols >= 0), and
\* the confidence is between 0 and 100.
ThmC13 ==
    demod_ret = 1 =>
        /\ \A i \in 1 .. Len(demod.hard) : demod.hard[i] \in 0 .. 3
        /\ Len(demod.hard) = demod.n_symbols
        /\ Len(demod.bits) = demod.n_bits
        /\ \A i \in 1 .. Len(demod.bits) : demod.bits[i] \in {0, 1}
        /\ demod.n_bits = 2 * demod.n_symbols
        /\ demod.n_symbols >= IR_UW_LENGTH
        /\ demod.n_payload_symbols = demod.n_symbols - IR_UW_LENGTH
        /\ demod.n_payload_symbols >= 0
        /\ demod.confidence >= 0 /\ demod.confidence <= 100

\* a frame accepted by the soft rescue, cut at the end of the burst, with
\* payload symbols and a confidence below 100
WitC13 ==
    /\ demod_ret = 1
    /\ ~check_sync_word(demod.hard, demod.n_symbols, demod.direction)
    /\ demod.n_symbols < Len(pll_out)
    /\ demod.n_payload_symbols > 0
    /\ demod.confidence < 100

(***************************************************************************)
(* BCH(31,21)                                                              *)
(***************************************************************************)
\* the generator polynomial read as the octal numeral 1207
Octal1207 == 1 * (8 ^ 3) + 2 * (8 ^ 2) + 0 * 8 + 7

\* C16, as stated: with the generator polynomial 1207 read as octal, a word
\* with one or two bits in error has the syndrome whose table entry holds
\* exactly the bits in error, with their number as the error count.
CexC16 ==
    (bch_result # BchPending /\ Weight(bch_error) \in {1, 2}) =>
        bch_31_21_correct(gf2_remainder(Octal1207, bch_received), 0) =
            [ret |-> Weight(bch_error), locator |-> bch_error]

\* C16, amended: the generator polynomial is 1207 decimal (2267 octal).  A
\* codeword with one or two bits in error has the syndrome of the error
\* pattern alone, the table entry at that syndrome holds the error count and
\* exactly the bits in error, and for a single error at bit k that is the
\* entry at gf2_remainder(1207, 1 << k) with count 1 and locator 1 << k.
ThmC16 ==
    (bch_result # BchPending /\ Weight(bch_error) \in {1, 2}) =>
        /\ gf2_remainder(1207, bch_received) = gf2_remainder(1207, bch_error)
        /\ bch_result = [ret |-> Weight(bch_error), locator |-> bch_error]
        /\ syn_ra[gf2_remainder(1207, bch_error)] =
               [errs |-> Weight(bch_error), locator |-> bch_error]

\* a nonzero codeword with two bits in error has been looked up
WitC16 ==
    /\ bch_result # BchPending
    /\ Weight(bch_error) = 2
    /\ bch_received # bch_error
    /\ bch_result.ret = 2


(***************************************************************************)
(* frame_decode and ida_decode                                             *)
(***************************************************************************)
FrameDecoded == fd_out # FdPending
IdaDecoded == ida_out # FdPending

\* the first 24 bits of the frame are one of the two access codes
ExactAccess ==
    /\ dec_frame.n_bits >= 24
    /\ SubSeq(dec_frame.bits, 1, 24) \in {access_dl, access_ul}

\* C14: a frame passes the access-code check of frame_decode, and of
\* ida_decode, exactly if its first 24 bits are the downlink or the uplink
\* access code bit for bit; a frame that differs from both is rejected with
\* no decoding attempted (no block decoded, the link control word untouched).
ThmC14 ==
    /\ FrameDecoded =>
          /\ (fd_out.checked /\ (fd_out.is_dl \/ fd_out.is_ul)) <=> ExactAccess
          /\ ~ExactAccess =>
                 /\ fd_out.ret = 0
                 /\ fd_out.type = "FRAME_UNKNOWN"
                 /\ fd_out.blocks = <<>>
    /\ (IdaDecoded /\ dec_frame.n_bits >= 24 + 46 + 124) =>
          /\ ida_out.checked
          /\ (ida_out.is_dl \/ ida_out.is_ul) <=> ExactAccess
          /\ ~ExactAccess => (ida_out.ret = 0 /\ ~ida_out.lcw_tried)

\* a frame one bit off the downlink access code, which both decoders accept
\* with the bit restored, has been rejected by both at the access check
WitC14 ==
    /\ FrameDecoded /\ IdaDecoded
    /\ dec_frame.bits = Flip(access_dl, {24}) \o IdaBits(2, 312)
    /\ frame_decode(FrameOf(access_dl \o IdaBits(2, 312), <<>>)).ret = 1
    /\ ida_decode(FrameOf(access_dl \o IdaBits(2, 312), <<>>), 0).ret = 1
    /\ fd_out.checked /\ fd_out.ret = 0
    /\ ida_out.checked /\ ida_out.ret = 0

\* the 31-bit word frame_decode copied the data of a block from
CorrectedWord(b) == bits_to_uint(b.data \o b.check, 31)

\* C15: in a frame that frame_decode accepts, every block whose data went
\* into the decoded stream has, after correction by the table or by the
\* Chase search, a zero BCH syndrome, and its corrected bits together with
\* the received parity bit have even weight.
ThmC15 ==
    (FrameDecoded /\ fd_out.ret = 1) =>
        \A i \in 1 .. Len(fd_out.blocks) :
            /\ gf2_remainder(1207, CorrectedWord(fd_out.blocks[i])) = 0
            /\ (Weight(CorrectedWord(fd_out.blocks[i]))
                    + fd_out.blocks[i].block32[32]) % 2 = 0

\* an accepted frame with soft values and paging blocks behind the header,
\* one block of which the Chase search corrected in three bits
WitC15 ==
    /\ FrameDecoded /\ fd_out.ret = 1
    /\ dec_frame.llr # <<>>
    /\ Len(fd_out.blocks) > 3
    /\ \E i \in 1 .. Len(fd_out.blocks) :
           Weight(Xor(bits_to_uint(fd_out.blocks[i].block32, 31),
                      CorrectedWord(fd_out.blocks[i]))) = 3

\* the three blocks of the first 96 bits behind the access code all have a
\* zero syndrome and even parity as received
CleanIraHeader ==
    /\ dec_frame.n_bits = 24 + 96
    /\ \A k \in 1 .. 3 :
           LET b == de_interleave3(SubSeq(dec_frame.bits, 25, 120))[k]
           IN  /\ gf2_remainder(1207, bits_to_uint(b, 31)) = 0
               /\ SumOver(b, 1, 32) % 2 = 0

\* C17, as stated: the downlink access code followed by 96 bits whose three
\* de-interleaved blocks are BCH-clean and parity-clean is decoded with
\* return value 1 and classified as IRA.
CexC17 ==
    (FrameDecoded /\ CleanIraHeader
        /\ SubSeq(dec_frame.bits, 1, 24) = access_dl) =>
        (fd_out.ret = 1 /\ fd_out.type = "FRAME_IRA")

\* round(4 * sqrt(n)), to the nearest integer: 4 * sqrt(n) is never half
\* way between two integers
RoundSqrtTimes4(n) == (IsqrtIn(64 * n, 0, 46340) + 1) \div 2

SumOfSquares(pos) == pos[1] * pos[1] + pos[2] * pos[2] + pos[3] * pos[3]

\* C19, as stated: the altitude reported for an IRA header is
\* round(4 * sqrt(x*x + y*y + z*z)) - 6378 + 23, rounded to the nearest
\* integer, for the position (x, y, z) extracted from the header.
CexC19 ==
    (FrameDecoded /\ fd_out.ret = 1 /\ fd_out.type = "FRAME_IRA") =>
        fd_out.ira.alt =
            RoundSqrtTimes4(SumOfSquares(fd_out.ira.pos)) - 6378 + 23

\* the frame behind the access code, as frame_decode sees it
FdData == SubSeq(dec_frame.bits, 25, dec_frame.n_bits)
FdLlr ==
    IF dec_frame.llr = <<>> THEN <<>>
    ELSE SubSeq(dec_frame.llr, 25, dec_frame.n_bits)
FdDataLen == dec_frame.n_bits - 24

PairPasses(pair) == BlockPasses(pair[1]) /\ BlockPasses(pair[2])

\* the six header bits of the frame pass BCH(7,3)
IbcHeaderPasses ==
    /\ ExactAccess
    /\ FdDataLen >= 6 + 64
    /\ IbcHeaderOk(gf2_remainder(BCH_POLY_HDR, bits_to_uint(FdData, 6)))

\* the blocks that classify the frame pass: the header and the first pair
\* of an IBC frame, the three header blocks of an IRA frame
IbcClassified == IbcHeaderPasses /\ PairPasses(PairAt(FdData, FdLlr, 6))

IraHead ==
    BlockTriple(de_interleave3(SubSeq(FdData, 1, 96)),
                IF FdLlr = <<>> THEN <<<<>>, <<>>, <<>>>>
                ELSE de_interleave3(SubSeq(FdLlr, 1, 96)))

IraClassified ==
    /\ ExactAccess
    /\ ~IbcClassified
    /\ FdDataLen >= 96
    /\ \A k \in 1 .. 3 : BlockPasses(IraHead[k])

HeadBlocks == IF IbcClassified THEN PairAt(FdData, FdLlr, 6) ELSE IraHead

\* the pairs behind the classifying blocks that the loop can reach: pair j
\* is at ChainStart + 64 * j, whole within the limit of the branch and with
\* room left in bch_stream
ChainStart == IF IbcClassified THEN 6 + 64 ELSE 96
ChainLimit == IF IbcClassified THEN Min(262, FdDataLen) ELSE FdDataLen
ChainCap == IF IbcClassified THEN 256 ELSE 512
ChainPairs ==
    Cardinality({j \in 0 .. 11 :
        /\ ChainStart + 64 * j + 64 <= ChainLimit
        /\ BCH_RA_DATA * (Len(HeadBlocks) + 2 * j) + 2 * BCH_RA_DATA
               <= ChainCap})
ChainPair(j) == PairAt(FdData, FdLlr, ChainStart + 64 * j)

\* the first pair of the chain with an uncorrectable block or a parity
\* mismatch; ChainPairs if there is none
FirstFailing ==
    CHOOSE f \in 0 .. ChainPairs :
        /\ f = ChainPairs \/ ~PairPasses(ChainPair(f))
        /\ \A j \in 0 .. (f - 1) : PairPasses(ChainPair(j))

\* C21, as stated: an FEC failure in a block behind the header leaves the
\* frame classified; for an IBC frame, whose header is its six header
\* bits, a failure in the first pair of blocks behind the header would
\* still give return value 1 and a frame type.
CexC21 ==
    (FrameDecoded /\ IbcHeaderPasses
        /\ ~PairPasses(PairAt(FdData, FdLlr, 6))) =>
        (fd_out.ret = 1 /\ fd_out.type # "FRAME_UNKNOWN")

\* C21: an FEC failure (uncorrectable BCH or parity mismatch) in a block
\* behind the blocks that classify the frame -- the three header blocks of
\* an IRA frame, the first pair behind the header of an IBC frame -- ends
\* the decode chain but not the classification: frame_decode returns 1 with
\* the frame type set, and the blocks whose data bits make up the decoded
\* data are exactly the classifying blocks and the pairs before the first
\* failing pair, with nothing of the failing pair or of any later block.
ThmC21 ==
    (FrameDecoded /\ (IbcClassified \/ IraClassified)
        /\ FirstFailing < ChainPairs) =>
        /\ fd_out.ret = 1
        /\ fd_out.type = (IF IbcClassified THEN "FRAME_IBC" ELSE "FRAME_IRA")
        /\ Len(fd_out.blocks) = Len(HeadBlocks) + 2 * FirstFailing
        /\ SubSeq(fd_out.blocks, 1, Len(HeadBlocks)) = HeadBlocks
        /\ \A j \in 0 .. (FirstFailing - 1) :
               SubSeq(fd_out.blocks, Len(HeadBlocks) + 2 * j + 1,
                      Len(HeadBlocks) + 2 * j + 2) = ChainPair(j)
        /\ fd_out.type = "FRAME_IRA" =>
               fd_out.ira = parse_ira(StreamOf(fd_out.blocks),
                                      BCH_RA_DATA * Len(fd_out.blocks))

\* an IBC frame of four pairs decoded: the third pair fails on the parity
\* bit of its first block, the fourth is clean, and only the first two
\* pairs are in the decoded data
WitC21 ==
    /\ FrameDecoded /\ fd_out.type = "FRAME_IBC"
    /\ IbcClassified
    /\ ChainPairs = 3 /\ FirstFailing = 1
    /\ ChainPair(1)[1].ret >= 0 /\ ~BlockPasses(ChainPair(1)[1])
    /\ PairPasses(ChainPair(2))
    /\ Len(fd_out.blocks) = 4

(***************************************************************************)
(* gf2_remainder of shifted generator polynomials (SpecGf).                *)
(***************************************************************************)
GfDone == gf_rem # GfPending

\* poly << k keeps every bit of poly within 32 bits
ShiftFits == gf_shift <= 32 - BitLength(gf_poly)

\* C22, as stated: gf2_remainder(poly, poly << k) is 0 for every generator
\* polynomial of the decoders and every shift k >= 0, in 32-bit unsigned
\* arithmetic.
CexC22 == GfDone => gf_rem = 0

\* C22: gf2_remainder(poly, poly << k) is 0 for every generator polynomial
\* of the decoders and every shift k for which poly << k fits in 32 bits
\* (k <= 32 - bit length of poly); for a larger k below 32 the shift loses
\* the top bits of poly and the remainder is not 0.
ThmC22 == GfDone => (gf_rem = 0 <=> ShiftFits)

\* the polynomial 1207 shifted to the top of the word, bit 31 set, has
\* remainder 0
WitC22 ==
    /\ GfDone /\ gf_rem = 0
    /\ gf_poly = BCH_POLY_RA /\ gf_shift = 21
    /\ ShiftLeft32(gf_poly, gf_shift).top = 1

(***************************************************************************)
(* The hard unique-word check (SpecUw).                                    *)
(***************************************************************************)
UwChecked == uw_dl_ok # UwPending

\* the symbols of the spec's worked example
ExampleSymbols == <<0, 2, 2, 2, 2, 0, 0, 0, 2, 0, 0, 0>>

\* the distance on the circle of four symbols, summed over the unique word
WrapDistance(symbols, uw) ==
    SumOver([i \in 1 .. IR_UW_LENGTH |->
                Min((symbols[i] - uw[i]) % 4, (uw[i] - symbols[i]) % 4)],
            1, IR_UW_LENGTH)

AcceptsWithin2 ==
    /\ (uw_dl_ok = 1) <=> (WrapDistance(uw_symbols, IR_UW_DL) <= 2)
    /\ (uw_ul_ok = 1) <=> (WrapDistance(uw_symbols, IR_UW_UL) <= 2)

\* C18 as stated: the hard check accepts the first 12 symbols for a
\* direction exactly when their wrap-aware distance to that direction's
\* unique word is at most 2, and the example symbols have distance 1 to the
\* downlink unique word and are accepted as downlink.
CexC18 ==
    (UwChecked /\ Len(uw_symbols) >= IR_UW_LENGTH) =>
        /\ AcceptsWithin2
        /\ (uw_symbols = ExampleSymbols =>
                /\ WrapDistance(uw_symbols, IR_UW_DL) = 1
                /\ uw_dl_ok = 1)

\* C18, amended: the hard check accepts the first 12 symbols for a
\* direction exactly when their wrap-aware distance to that direction's
\* unique word is at most 2; the example symbols differ from the downlink
\* unique word in the last symbol by two steps, have distance 2 and are
\* accepted as downlink (and not as uplink).
ThmC18 ==
    (UwChecked /\ Len(uw_symbols) >= IR_UW_LENGTH) =>
        /\ AcceptsWithin2
        /\ (uw_symbols = ExampleSymbols =>
                /\ WrapDistance(uw_symbols, IR_UW_DL) = 2
                /\ uw_dl_ok = 1
                /\ uw_ul_ok = 0)

WitC18 ==
    /\ UwChecked
    /\ uw_symbols = ExampleSymbols
    /\ uw_dl_ok = 1

(***************************************************************************)
(* The FFT planner (SpecPlan).                                             *)
(***************************************************************************)
\* no two threads are inside a planner call at the same time
PlannerSerialized ==
    \A t \in PlanThreads : \A u \in PlanThreads :
        (InPlanner(t) /\ InPlanner(u)) => t = u

\* a thread inside a planner call holds the mutex
PlannerCallsLocked ==
    \A t \in PlanThreads : InPlanner(t) => fftw_planner_mutex = t

\* C20: no two threads are inside an FFT plan creation or destruction call
\* at the same time, and every thread inside such a call holds the planner
\* mutex.
CexC20 == PlannerSerialized /\ PlannerCallsLocked

\* what the mutex does give: the calls other than the detector's
\* fftwf_destroy_plan exclude each other
CreationSerialized ==
    \A t \in PlanThreads : \A u \in PlanThreads :
        (/\ InPlanner(t) /\ InPlanner(u)
         /\ plan_pc[t] # "det_destroy_plan"
         /\ plan_pc[u] # "det_destroy_plan") => t = u
====
